---- MODULE Spec2Model ----
(***************************************************************************)
(* Model of rte-france/opf4borders, package `sensitivities`:               *)
(*   - the contingency loop of main (calculate_sensitivities.py), one      *)
(*     action per statement of the loop body, over the network's variants; *)
(*   - the pure table computations of aux.py (exchange sign, exchange,     *)
(*     merged HVDC levers, sensitivity dictionaries, adjust_network, the   *)
(*     equivalent lines and the droop flags) and the monitored branches of *)
(*     main, each under its own specification whose Init draws the inputs  *)
(*     and whose actions apply the functions.                              *)
(***************************************************************************)
EXTENDS Integers, Sequences, FiniteSets, TLC

VARIABLES
    \* ---- main: inputs fixed before the loop
    hvdc_emulation_lines_ids,   \* links converted to an equivalent AC branch
    monitored_branches_ids,     \* monitored branches present in the network
    cases,                      \* case names, "N" first
    contingency_element_types,  \* element type of each case
    \* ---- main: the network's variants
    variants,                   \* variant name -> connection status of every element
    working,                    \* name of the working variant
    \* ---- main: position and results of the loop
    pc,                         \* statement about to run
    idx,                        \* 1-based position in zip(cases, contingency_element_types)
    result,                     \* what launch_sensitivity_analysis returned
    branches_sensitivities,     \* branch -> (case name -> entry)
    ac_eq_sensitivities,        \* converted link -> (case name -> entry)
    \* ---- main: history, read by the properties only
    log,                        \* operations of the current case, in order
    processed,                  \* positions of the cases entered so far
    conv,                       \* position -> how the case ended
    lastSolve,                  \* the network as the last solver call saw it
    \* ---- calculate_exchange / add_exchange_sign_to_hvdc_df
    ex_in,                      \* the network tables and the country pair
    ex_out,                     \* the returned tables
    \* ---- get_hvdc_data
    hd_in,                      \* hvdc_df, active ids, per_unit
    hd_out,                     \* (hvdc_map, hvdc_dict)
    \* ---- get_hvdc_sensitivities_from_generators and the fold of one case
    sn_in,                      \* the solver's matrices, fict_gen, generators_for_ct
    sn_out,                     \* the dictionaries and the entries of the case
    \* ---- adjust_network
    an_in,                      \* the network as loaded
    an_out,                     \* the network after each call
    \* ---- create_ac_lines_to_simulate_hvdc_ac_emulation, hvdc_lines_full_setpoint
    dr_in,                      \* the network, active ids, force_setpoint
    dr_out,                     \* the network after each step, the value returned
    \* ---- main: the monitored branches
    mb_in,                      \* the ids of the csv file, the network's branches
    mb_out,                     \* monitored_branches_ids, how far main went
    \* ---- add_generators_at_hvdcs_extremities
    fg_in,                      \* the network, hvdc_list
    fg_out,                     \* the network after the call, the table returned
    \* ---- get_branches_limits
    bl_in,                      \* the current limits, the monitored branches
    bl_out,                     \* the dictionary returned, the monitored list
    \* ---- the module's solver parameters over successive calls of main
    PARAMS,                     \* the module-level lf.Parameters object
    sl_out                      \* the calls made, and what their solves read

varsMain == <<hvdc_emulation_lines_ids, monitored_branches_ids, cases,
              contingency_element_types, variants, working, pc, idx, result,
              branches_sensitivities, ac_eq_sensitivities, log, processed, conv,
              lastSolve>>
varsEx == <<ex_in, ex_out>>
varsHd == <<hd_in, hd_out>>
varsSn == <<sn_in, sn_out>>
varsAn == <<an_in, an_out>>
varsDr == <<dr_in, dr_out>>
varsMb == <<mb_in, mb_out>>
varsFg == <<fg_in, fg_out>>
varsBl == <<bl_in, bl_out>>
varsSl == <<PARAMS, sl_out>>
varsMore == <<varsFg, varsBl, varsSl>>
varsAux == <<varsSn, varsAn, varsDr, varsMb, varsMore>>
vars == <<varsMain, varsEx, varsHd, varsAux>>

(***************************************************************************)
(* Bounds of the model.                                                    *)
(***************************************************************************)
\* at most this many contingencies follow the base case in the case list
MaxContingencies == 3

(***************************************************************************)
(* The network of the contingency loop.                                    *)
(***************************************************************************)
Lines == {"L1"}
Transformers == {"T1"}
HvdcLines == {"H1", "H2"}

\* calculate_sensitivities.py:100 / aux.py:197,360: the equivalent branch's id
AcEqLine(hvdc_line_id) == "ac_eq_line_" \o hvdc_line_id

\* calculate_sensitivities.py:216
initial_name == "InitialState"
\* calculate_sensitivities.py:222
current_contingency == "current_contingency"
\* calculate_sensitivities.py:42
debug == TRUE

Connected == <<TRUE, TRUE>>
Disconnected == <<FALSE, FALSE>>

\* the elements of the network once the equivalent branches exist
Elements(emu) == Lines \cup Transformers \cup HvdcLines \cup {AcEqLine(h) : h \in emu}

\* list(a_set): some order of the set's elements
RECURSIVE SetToList(_)
SetToList(S) ==
    IF S = {} THEN <<>>
    ELSE LET x == CHOOSE y \in S : TRUE IN <<x>> \o SetToList(S \ {x})

\* n * [t]
Repeat(n, t) == [i \in 1..n |-> t]

(***************************************************************************)
(* aux.py: apply_contingency_modification.  A network state maps every     *)
(* element to <<connected1, connected2>>.                                  *)
(***************************************************************************)
\* network.update_branches / update_2_windings_transformers / update_hvdc_lines
\* (id=..., connected1=status, connected2=status)
update_connected(net, id, status) == [net EXCEPT ![id] = <<status, status>>]

\* a slip: the equivalent branch of an HVDC contingency is left alone
apply_contingency_modification_no_eq(net, case_name, contingency_element_type, hvdc_lines_ac_emulation, status) ==
    IF contingency_element_type = "" THEN net
    ELSE update_connected(net, case_name, status)

apply_contingency_modification(net, case_name, contingency_element_type, hvdc_lines_ac_emulation, status) ==
    IF contingency_element_type = "" THEN net
    ELSE IF contingency_element_type = "ac_line"
        THEN update_connected(net, case_name, status)
    ELSE IF contingency_element_type = "transformer"
        THEN update_connected(net, case_name, status)
    ELSE IF contingency_element_type = "hvdc_line"
        THEN LET n1 == update_connected(net, case_name, status)
             IN  IF case_name \in hvdc_lines_ac_emulation
                 THEN update_connected(n1, AcEqLine(case_name), status)
                 ELSE n1
    ELSE net

(***************************************************************************)
(* The network's variant manager.                                          *)
(***************************************************************************)
\* a slip: a variant of the target's name is kept as it is
clone_variant_keep(vs, src, target) ==
    [v \in DOMAIN vs \cup {target} |-> IF v \in DOMAIN vs THEN vs[v] ELSE vs[src]]

\* network.clone_variant(src, target): target becomes a copy of src,
\* replacing a variant of that name if there is one
clone_variant(vs, src, target) ==
    [v \in DOMAIN vs \cup {target} |-> IF v = target THEN vs[src] ELSE vs[v]]

\* a Python dict after d[key] = value
DictSet(d, key, value) ==
    [k \in DOMAIN d \cup {key} |-> IF k = key THEN value ELSE d[k]]

(***************************************************************************)
(* main: the state on entry to the contingency loop.  The contingency rows *)
(* name elements of the loaded network, each under one element_type, so    *)
(* the case names are distinct and no row names an equivalent branch.      *)
(***************************************************************************)
\* the case's element is open at both ends in net
Applied(net, case_name, contingency_element_type) ==
    contingency_element_type # "" /\ net[case_name] = Disconnected

\* the network after lines 87-203: converted links and their equivalent
\* branches are connected (aux.py:132,191 reads only connected links)
BaselineNets(emu) ==
    {net \in [Elements(emu) -> {Connected, Disconnected, <<TRUE, FALSE>>}] :
        /\ \A h \in emu : net[h] = Connected /\ net[AcEqLine(h)] = Connected
        /\ \A e \in (Transformers \cup HvdcLines) \ emu : net[e] = Connected}

MainIdle ==
    /\ hvdc_emulation_lines_ids = {}
    /\ monitored_branches_ids = {}
    /\ cases = <<>>
    /\ contingency_element_types = <<>>
    /\ variants = <<>>
    /\ working = ""
    /\ pc = "idle"
    /\ idx = 0
    /\ result = {}
    /\ branches_sensitivities = <<>>
    /\ ac_eq_sensitivities = <<>>
    /\ log = <<>>
    /\ processed = <<>>
    /\ conv = <<>>
    /\ lastSolve = <<>>

ExIdle == ex_in = <<>> /\ ex_out = <<>>
HdIdle == hd_in = <<>> /\ hd_out = <<>>
SnIdle == sn_in = <<>> /\ sn_out = <<>>
AnIdle == an_in = <<>> /\ an_out = <<>>
DrIdle == dr_in = <<>> /\ dr_out = <<>>
MbIdle == mb_in = <<>> /\ mb_out = <<>>
FgIdle == fg_in = <<>> /\ fg_out = <<>>
BlIdle == bl_in = <<>> /\ bl_out = <<>>
SlIdle == PARAMS = <<>> /\ sl_out = <<>>
MoreIdle == FgIdle /\ BlIdle /\ SlIdle
AuxIdle == SnIdle /\ AnIdle /\ DrIdle /\ MbIdle /\ MoreIdle

Init ==
    /\ ExIdle /\ HdIdle /\ AuxIdle
    /\ hvdc_emulation_lines_ids \in SUBSET HvdcLines
    /\ monitored_branches_ids \in {{"L1"}, {"L1", "T1"}}
    /\ \E contingencies_ac_lines_ids \in SUBSET (Lines \cup Transformers),
          contingencies_hvdc_lines_ids \in SUBSET HvdcLines,
          contingencies_transformer_ids \in SUBSET Transformers :
        /\ contingencies_ac_lines_ids \cap contingencies_transformer_ids = {}
        /\ Cardinality(contingencies_ac_lines_ids)
             + Cardinality(contingencies_hvdc_lines_ids)
             + Cardinality(contingencies_transformer_ids) <= MaxContingencies
        /\ cases = <<"N">> \o SetToList(contingencies_ac_lines_ids)
                          \o SetToList(contingencies_hvdc_lines_ids)
                          \o SetToList(contingencies_transformer_ids)
        /\ contingency_element_types =
              <<"">> \o Repeat(Cardinality(contingencies_ac_lines_ids), "ac_line")
                     \o Repeat(Cardinality(contingencies_hvdc_lines_ids), "hvdc_line")
                     \o Repeat(Cardinality(contingencies_transformer_ids), "transformer")
    /\ \E net \in BaselineNets(hvdc_emulation_lines_ids) :
        /\ variants = [v \in {initial_name} |-> net]
        /\ lastSolve = [kind |-> "run_ac", phase |-> "initial", idx |-> 0, net |-> net]
    /\ working = initial_name
    /\ pc = "clone_variant"
    /\ idx = 1
    /\ result = [generators |-> {}, generators_ac_eq_line |-> {}]
    /\ branches_sensitivities = [b \in monitored_branches_ids |-> <<>>]
    /\ ac_eq_sensitivities = [h \in hvdc_emulation_lines_ids |-> <<>>]
    /\ log = <<>>
    /\ processed = <<>>
    /\ conv = [i \in 1..Len(cases) |-> "pending"]

NoEx == UNCHANGED <<varsEx, varsHd, varsAux>>
Inputs == UNCHANGED <<hvdc_emulation_lines_ids, monitored_branches_ids, cases,
                      contingency_element_types>>

case_name == cases[idx]
contingency_element_type == contingency_element_types[idx]

\* the for statement of line 219 taking its next item, or ending
ForNext(i) == IF i > Len(cases) THEN "done" ELSE "clone_variant"

LogEntry(op, status, net) ==
    [op |-> op, status |-> status, variant |-> working,
     applied |-> Applied(net, case_name, contingency_element_type)]

Solve(kind, phase) ==
    [kind |-> kind, phase |-> phase, idx |-> idx, net |-> variants[working]]

(***************************************************************************)
(* main, lines 219-277: the contingency loop, one action per statement.    *)
(***************************************************************************)
\* line 222: network.clone_variant(initial_name, "current_contingency")
CloneVariant ==
    /\ pc = "clone_variant"
    /\ variants' = clone_variant(variants, initial_name, current_contingency)
    /\ processed' = Append(processed, idx)
    /\ log' = <<>>
    /\ pc' = "set_working_variant"
    /\ UNCHANGED <<working, idx, result, branches_sensitivities,
                   ac_eq_sensitivities, conv, lastSolve>>
    /\ Inputs /\ NoEx

\* a slip: the working variant is not switched to the copy
SetWorkingVariant_omitted ==
    /\ pc = "set_working_variant"
    /\ pc' = "apply_contingency_modification"
    /\ UNCHANGED <<working, variants, idx, result, branches_sensitivities,
                   ac_eq_sensitivities, log, processed, conv, lastSolve>>
    /\ Inputs /\ NoEx

\* line 223: network.set_working_variant("current_contingency")
SetWorkingVariant ==
    /\ pc = "set_working_variant"
    /\ working' = current_contingency
    /\ pc' = "apply_contingency_modification"
    /\ UNCHANGED <<variants, idx, result, branches_sensitivities,
                   ac_eq_sensitivities, log, processed, conv, lastSolve>>
    /\ Inputs /\ NoEx

\* lines 224, 230, 232: apply_contingency_modification(network, case_name,
\* contingency_element_type, hvdc_emulation_lines_ids, status) on the working
\* variant, then the statement at `next`
ApplyStep(at, status, next) ==
    /\ pc = at
    /\ LET net == apply_contingency_modification(variants[working], case_name,
                      contingency_element_type, hvdc_emulation_lines_ids, status)
       IN  /\ variants' = [variants EXCEPT ![working] = net]
           /\ log' = Append(log, LogEntry("apply", status, net))
    /\ pc' = next
    /\ UNCHANGED <<working, idx, result, branches_sensitivities,
                   ac_eq_sensitivities, processed, conv, lastSolve>>
    /\ Inputs /\ NoEx

\* lines 224-225
ApplyContingency ==
    ApplyStep("apply_contingency_modification", FALSE,
              IF debug THEN "run_ac" ELSE "launch_sensitivity_analysis")

\* lines 226-229: the first power flow of the case and the test of its status
RunAc ==
    /\ pc = "run_ac"
    /\ \E converged \in BOOLEAN :
        /\ log' = Append(log, LogEntry("run_ac", converged, variants[working]))
        /\ pc' = IF converged THEN "launch_sensitivity_analysis" ELSE "reconnect"
    /\ lastSolve' = Solve("run_ac", "first")
    /\ UNCHANGED <<variants, working, idx, result, branches_sensitivities,
                   ac_eq_sensitivities, processed, conv>>
    /\ Inputs /\ NoEx

\* line 230
Reconnect == ApplyStep("reconnect", TRUE, "run_ac_back")

\* a slip: a converged solve of the reconnected network starts the
\* sensitivity solve
RunAcBack_launch ==
    /\ pc = "run_ac_back"
    /\ \E converged \in BOOLEAN :
        /\ log' = Append(log, LogEntry("run_ac", converged, variants[working]))
        /\ pc' = IF converged THEN "launch_sensitivity_analysis" ELSE "disconnect_again"
    /\ lastSolve' = Solve("run_ac", "back")
    /\ UNCHANGED <<variants, working, idx, result, branches_sensitivities,
                   ac_eq_sensitivities, processed, conv>>
    /\ Inputs /\ NoEx

\* line 231: print(f"Back to normal?: {lf.run_ac(network, PARAMS)}")
RunAcBack ==
    /\ pc = "run_ac_back"
    /\ \E converged \in BOOLEAN :
        log' = Append(log, LogEntry("run_ac", converged, variants[working]))
    /\ lastSolve' = Solve("run_ac", "back")
    /\ pc' = "disconnect_again"
    /\ UNCHANGED <<variants, working, idx, result, branches_sensitivities,
                   ac_eq_sensitivities, processed, conv>>
    /\ Inputs /\ NoEx

\* line 232
DisconnectAgain == ApplyStep("disconnect_again", FALSE, "run_ac_2")

\* a slip: an unconverged retry ends the loop
RunAc2_abort ==
    /\ pc = "run_ac_2"
    /\ \E converged \in BOOLEAN :
        /\ log' = Append(log, LogEntry("run_ac", converged, variants[working]))
        /\ IF converged
           THEN pc' = "launch_sensitivity_analysis" /\ UNCHANGED <<idx, conv>>
           ELSE /\ conv' = [conv EXCEPT ![idx] = "skipped"]
                /\ idx' = idx + 1
                /\ pc' = "done"
    /\ lastSolve' = Solve("run_ac", "retry")
    /\ UNCHANGED <<variants, working, result, branches_sensitivities,
                   ac_eq_sensitivities, processed>>
    /\ Inputs /\ NoEx

\* a slip: an unconverged retry starts the retry over
RunAc2_again ==
    /\ pc = "run_ac_2"
    /\ \E converged \in BOOLEAN :
        /\ log' = Append(log, LogEntry("run_ac", converged, variants[working]))
        /\ IF converged \/ Len(log) > 8
           THEN pc' = "launch_sensitivity_analysis"
           ELSE pc' = "reconnect"
    /\ lastSolve' = Solve("run_ac", "retry")
    /\ UNCHANGED <<variants, working, idx, conv, result, branches_sensitivities,
                   ac_eq_sensitivities, processed>>
    /\ Inputs /\ NoEx

\* lines 233-238: the retry's power flow; unconverged, the case is skipped
\* (`continue`: the for statement takes its next item)
RunAc2 ==
    /\ pc = "run_ac_2"
    /\ \E converged \in BOOLEAN :
        /\ log' = Append(log, LogEntry("run_ac", converged, variants[working]))
        /\ IF converged
           THEN pc' = "launch_sensitivity_analysis" /\ UNCHANGED <<idx, conv>>
           ELSE /\ conv' = [conv EXCEPT ![idx] = "skipped"]
                /\ idx' = idx + 1
                /\ pc' = ForNext(idx + 1)
    /\ lastSolve' = Solve("run_ac", "retry")
    /\ UNCHANGED <<variants, working, result, branches_sensitivities,
                   ac_eq_sensitivities, processed>>
    /\ Inputs /\ NoEx

\* aux.py 439-461, called at lines 240-242: the reference matrices returned
\* have one column per monitored branch / per equivalent branch asked for
launch_sensitivity_analysis(monitored, ac_eq_line_hvdc_lines_ids) ==
    [generators |-> monitored, generators_ac_eq_line |-> ac_eq_line_hvdc_lines_ids]

\* lines 240-242
LaunchSensitivityAnalysis ==
    /\ pc = "launch_sensitivity_analysis"
    /\ result' = launch_sensitivity_analysis(monitored_branches_ids,
                     {AcEqLine(h) : h \in hvdc_emulation_lines_ids})
    /\ log' = Append(log, LogEntry("sensi", TRUE, variants[working]))
    /\ lastSolve' = Solve("sensi", "sensi")
    /\ pc' = "fold"
    /\ UNCHANGED <<variants, working, idx, branches_sensitivities,
                   ac_eq_sensitivities, processed, conv>>
    /\ Inputs /\ NoEx

\* how many power flows the log holds
RECURSIVE CountOp(_, _)
CountOp(l, op) ==
    IF l = <<>> THEN 0
    ELSE (IF Head(l).op = op THEN 1 ELSE 0) + CountOp(Tail(l), op)

\* lines 255-261: the keys of branches_sensitivities[branch_name][case_name]
BranchEntry == {"referenceCurrent", "counter_trading"}

\* lines 263-270: the keys of ac_eq_sensitivities[hvdc_name][case_name]
AcEqEntry(hvdc_name) ==
    (IF AcEqLine(hvdc_name) \in result.generators_ac_eq_line
        THEN {"referenceCurrent"} ELSE {}) \cup {"counter_trading"}

\* a slip: the entries of a case are not stored
FoldBranches_none(d, case) == d

\* lines 255-261: the loop over branches_reference_dict
FoldBranches(d, case) ==
    [b \in DOMAIN d |->
        IF b \in result.generators THEN DictSet(d[b], case, BranchEntry) ELSE d[b]]

\* lines 263-270: the loop over hvdc_emulation_lines_ids
FoldAcEq(d, case) ==
    [h \in DOMAIN d |-> DictSet(d[h], case, AcEqEntry(h))]

\* lines 244-270
Fold ==
    /\ pc = "fold"
    /\ branches_sensitivities' = FoldBranches(branches_sensitivities, case_name)
    /\ ac_eq_sensitivities' = FoldAcEq(ac_eq_sensitivities, case_name)
    /\ conv' = [conv EXCEPT ![idx] =
                    IF CountOp(log, "run_ac") <= 1 THEN "first" ELSE "retry"]
    /\ pc' = "restore"
    /\ UNCHANGED <<variants, working, idx, result, log, processed, lastSolve>>
    /\ Inputs /\ NoEx

\* lines 273-277: network.set_working_variant(initial_name), then the for
\* statement takes its next item
Restore ==
    /\ pc = "restore"
    /\ working' = initial_name
    /\ idx' = idx + 1
    /\ pc' = ForNext(idx + 1)
    /\ UNCHANGED <<variants, result, branches_sensitivities, ac_eq_sensitivities,
                   log, processed, conv, lastSolve>>
    /\ Inputs /\ NoEx

Next ==
    \/ CloneVariant
    \/ SetWorkingVariant
    \/ ApplyContingency
    \/ RunAc
    \/ Reconnect
    \/ RunAcBack
    \/ DisconnectAgain
    \/ RunAc2
    \/ LaunchSensitivityAnalysis
    \/ Fold
    \/ Restore

Spec == Init /\ [][Next]_vars

\* the loop is sequential code: a statement that can run does run
FairSpec == Spec /\ WF_vars(Next)

(***************************************************************************)
(* Properties of the contingency loop.                                     *)
(***************************************************************************)
IsPrefix(a, b) == Len(a) <= Len(b) /\ \A i \in 1..Len(a) : a[i] = b[i]

\* what an operation of the log is: a power flow, a sensitivity solve, or a
\* (dis)connection with its status argument
OpKey(e) == IF e.op = "apply" THEN <<"apply", e.status>> ELSE <<e.op>>
LogKeys == [i \in 1..Len(log) |-> OpKey(log[i])]

RECURSIVE CountApplied(_)
CountApplied(l) ==
    IF l = <<>> THEN 0
    ELSE (IF Head(l).op = "run_ac" /\ Head(l).applied THEN 1 ELSE 0)
         + CountApplied(Tail(l))

\* the log is that of a case that has ended
CaseEnded == pc \in {"clone_variant", "done"} /\ log # <<>>

\* C1: in the contingency loop the baseline variant InitialState never
\* changes, and every call of apply_contingency_modification (disconnection,
\* reconnection, re-disconnection) is made while the working variant is the
\* copy current_contingency
C1_BaselineNeverMutated ==
    [][ /\ variants'[initial_name] = variants[initial_name]
        /\ \A i \in 1..Len(log') :
              log'[i].op = "apply" => log'[i].variant = current_contingency ]_vars

\* C1 witness: a real contingency was disconnected, reconnected and
\* disconnected again, and the copy differs from the baseline
C1_Witness ==
    /\ pc = "run_ac_2"
    /\ contingency_element_type # ""
    /\ CountOp(log, "apply") = 3
    /\ variants[current_contingency] # variants[initial_name]

\* C2 (as claimed): whenever a case is about to begin, and when the loop has
\* finished, the working variant is the baseline InitialState
C2_WorkingIsBaselineBetweenCases ==
    pc \in {"clone_variant", "done"} => working = initial_name

\* C3: a case whose first power flow fails runs exactly: disconnect, power
\* flow, reconnect, power flow, disconnect, power flow (then at most the
\* sensitivity solve); a case whose first power flow converges runs no retry;
\* no case has more than 3 power flows, nor more than 2 with its element open
C3_RetryOnce ==
    LET retry == << <<"apply", FALSE>>, <<"run_ac">>, <<"apply", TRUE>>,
                    <<"run_ac">>, <<"apply", FALSE>>, <<"run_ac">>, <<"sensi">> >>
        direct == << <<"apply", FALSE>>, <<"run_ac">>, <<"sensi">> >>
        firstFailed == Len(log) >= 2 /\ ~log[2].status
    IN  /\ IF firstFailed THEN IsPrefix(LogKeys, retry) ELSE IsPrefix(LogKeys, direct)
        /\ CountOp(log, "run_ac") <= 3
        /\ CountApplied(log) <= 2
        /\ firstFailed /\ Len(log) >= 4 /\ contingency_element_types[Len(processed)] # ""
              => ~log[4].applied
        /\ CaseEnded /\ firstFailed => Len(log) >= 6
        /\ CaseEnded => Len(log) >= 3

\* C3 witness: a real contingency went through the whole retry and converged
C3_Witness ==
    /\ pc = "launch_sensitivity_analysis"
    /\ contingency_element_type # ""
    /\ Len(log) = 6
    /\ CountApplied(log) = 2

HasEntryEverywhere(c) ==
    /\ \A b \in monitored_branches_ids : c \in DOMAIN branches_sensitivities[b]
    /\ \A h \in hvdc_emulation_lines_ids : c \in DOMAIN ac_eq_sensitivities[h]

HasEntrySomewhere(c) ==
    \/ \E b \in monitored_branches_ids : c \in DOMAIN branches_sensitivities[b]
    \/ \E h \in hvdc_emulation_lines_ids : c \in DOMAIN ac_eq_sensitivities[h]

\* C4: when the loop has finished, a case has an entry under every monitored
\* branch and every converted link if its power flow converged (first solve or
\* retry), and no entry under any of them if its retry failed too
C4_EntryIffConverged ==
    pc = "done" =>
        \A i \in 1..Len(cases) :
            /\ conv[i] \in {"first", "retry", "skipped"}
            /\ conv[i] \in {"first", "retry"} => HasEntryEverywhere(cases[i])
            /\ conv[i] = "skipped" => ~HasEntrySomewhere(cases[i])

\* C4 witness: a finished run with a case of each outcome and a converted link
C4_Witness ==
    /\ pc = "done"
    /\ hvdc_emulation_lines_ids # {}
    /\ \E i, j, k \in 1..Len(cases) :
          conv[i] = "first" /\ conv[j] = "retry" /\ conv[k] = "skipped"

\* C5: whatever the convergence outcomes, the loop enters the cases one by
\* one in list order, base case "N" first, each once, and ends having entered
\* them all
C5_EveryCaseOnceInOrder ==
    /\ [](/\ cases[1] = "N"
          /\ Len(processed) <= Len(cases)
          /\ \A i \in 1..Len(processed) : processed[i] = i
          /\ pc = "done" => Len(processed) = Len(cases))
    /\ <>[](pc = "done")

\* C5 witness: the loop ended although a case before the last was skipped
C5_Witness ==
    /\ pc = "done"
    /\ Len(cases) >= 3
    /\ conv[2] = "skipped"
    /\ conv[Len(cases)] = "first"

Countries == {"FR", "ES", "BE"}
VoltageLevels == {"V1", "V2", "V3"}
SIDE_1_RECTIFIER_SIDE_2_INVERTER == "SIDE_1_RECTIFIER_SIDE_2_INVERTER"
SIDE_1_INVERTER_SIDE_2_RECTIFIER == "SIDE_1_INVERTER_SIDE_2_RECTIFIER"

\* df[mask]: the rows whose id is in S
Rows(df, S) == [k \in S |-> df[k]]

\* Series.sum()
RECURSIVE SumOver(_, _)
SumOver(f, S) ==
    IF S = {} THEN 0
    ELSE LET x == CHOOSE y \in S : TRUE IN f[x] + SumOver(f, S \ {x})

\* lines 103-135: the links connected at both sides, each joined with the
\* voltage level, country and flow of its two converter stations
enhance_border_hvdc_dataframe(network) ==
    LET connected == {h \in DOMAIN network.hvdcs :
                        network.hvdcs[h].connected1 /\ network.hvdcs[h].connected2}
    IN  [h \in connected |->
            [converters_mode |-> network.hvdcs[h].converters_mode,
             voltage_level_id_or |-> network.hvdcs[h].voltage_level1_id,
             voltage_level_id_end |-> network.hvdcs[h].voltage_level2_id,
             country_or |-> network.country[network.hvdcs[h].voltage_level1_id],
             country_end |-> network.country[network.hvdcs[h].voltage_level2_id],
             p_or |-> network.hvdcs[h].p1,
             p_end |-> network.hvdcs[h].p2]]

\* lines 147-155: the value of the exchange_sign column of one row
ExchangeSign(row, country1, country2) ==
    LET s0 == 0
        s1 == IF row.country_or = country1 /\ row.country_end = country2 THEN 1 ELSE s0
        s2 == IF row.country_or = country2 /\ row.country_end = country1 THEN -1 ELSE s1
    IN  IF row.converters_mode = SIDE_1_INVERTER_SIDE_2_RECTIFIER THEN s2 * (-1) ELSE s2

\* a slip: the converter mode is not taken into account
ExchangeSignColumn_no_mode(hvdcs_border, country1, country2) ==
    [h \in DOMAIN hvdcs_border |->
        IF hvdcs_border[h].country_or = country1 THEN 1 ELSE -1]

\* lines 147-155
ExchangeSignColumn(hvdcs_border, country1, country2) ==
    [h \in DOMAIN hvdcs_border |-> ExchangeSign(hvdcs_border[h], country1, country2)]

\* lines 138-158
add_exchange_sign_to_hvdc_df(network, country1, country2) ==
    LET all == enhance_border_hvdc_dataframe(network)
        hvdcs == Rows(all, {h \in DOMAIN all :
                              /\ all[h].country_or \in {country1, country2}
                              /\ all[h].country_end \in {country1, country2}})
        hvdcs_border == Rows(hvdcs, {h \in DOMAIN hvdcs :
                                       hvdcs[h].country_or # hvdcs[h].country_end})
        sign == ExchangeSignColumn(hvdcs_border, country1, country2)
    IN  [h \in DOMAIN hvdcs_border |->
            [converters_mode |-> hvdcs_border[h].converters_mode,
             voltage_level_id_or |-> hvdcs_border[h].voltage_level_id_or,
             voltage_level_id_end |-> hvdcs_border[h].voltage_level_id_end,
             country_or |-> hvdcs_border[h].country_or,
             country_end |-> hvdcs_border[h].country_end,
             p_or |-> hvdcs_border[h].p_or,
             p_end |-> hvdcs_border[h].p_end,
             exchange_sign |-> sign[h]]]

\* lines 305-311: the branches joined with the country of their two sides
BranchesJoined(network) ==
    [b \in DOMAIN network.branches |->
        [voltage_level1_id |-> network.branches[b].voltage_level1_id,
         voltage_level2_id |-> network.branches[b].voltage_level2_id,
         p1 |-> network.branches[b].p1,
         p2 |-> network.branches[b].p2,
         country_or |-> network.country[network.branches[b].voltage_level1_id],
         country_end |-> network.country[network.branches[b].voltage_level2_id]]]

\* lines 318, 324: len(branches[voltage_level1_id == vl]) + len(branches[voltage_level2_id == vl])
IncidentBranches(branches, vl) ==
    Cardinality({b \in DOMAIN branches : branches[b].voltage_level1_id = vl})
    + Cardinality({b \in DOMAIN branches : branches[b].voltage_level2_id = vl})

\* lines 315-320
FalseBorderEnd(branches, country1, country2) ==
    LET false_border ==
            {branches[line].voltage_level2_id :
                line \in {l \in DOMAIN branches :
                            /\ branches[l].country_end = country1
                            /\ branches[l].country_or = country2
                            /\ IncidentBranches(branches, branches[l].voltage_level2_id) < 2}}
    IN  [b \in DOMAIN branches |->
            IF branches[b].voltage_level2_id \in false_border
            THEN [branches[b] EXCEPT !.country_end = country2]
            ELSE branches[b]]

\* lines 321-326
FalseBorderOr(branches, country1, country2) ==
    LET false_border ==
            {branches[line].voltage_level1_id :
                line \in {l \in DOMAIN branches :
                            /\ branches[l].country_end = country2
                            /\ branches[l].country_or = country1
                            /\ IncidentBranches(branches, branches[l].voltage_level1_id) < 2}}
    IN  [b \in DOMAIN branches |->
            IF branches[b].voltage_level1_id \in false_border
            THEN [branches[b] EXCEPT !.country_end = country2]
            ELSE branches[b]]

\* lines 305-329: the table branches_border
BranchesBorder(network, country1, country2) ==
    LET joined == BranchesJoined(network)
        relabelled == FalseBorderOr(FalseBorderEnd(joined, country1, country2),
                                    country1, country2)
        branches == Rows(relabelled, {b \in DOMAIN relabelled :
                                        /\ relabelled[b].country_or \in {country1, country2}
                                        /\ relabelled[b].country_end \in {country1, country2}})
    IN  Rows(branches, {b \in DOMAIN branches :
                          branches[b].country_or # branches[b].country_end})

\* lines 330-332
AcExchange(branches_border, country1) ==
    SumOver([b \in DOMAIN branches_border |->
                IF branches_border[b].country_or = country1
                THEN branches_border[b].p1 ELSE branches_border[b].p2],
            DOMAIN branches_border)

\* lines 335-337
HvdcExchange(hvdcs_border, country1) ==
    SumOver([h \in DOMAIN hvdcs_border |->
                IF hvdcs_border[h].country_or = country1
                THEN hvdcs_border[h].p_or * hvdcs_border[h].exchange_sign
                ELSE hvdcs_border[h].p_end * hvdcs_border[h].exchange_sign],
            DOMAIN hvdcs_border)

\* a slip: the total is taken before the AC part is rescaled to native units
calculate_exchange_total_first(network, hvdcs_border, country1, country2) ==
    LET ac == AcExchange(BranchesBorder(network, country1, country2), country1)
        hvdc == HvdcExchange(hvdcs_border, country1)
        ratio == IF network.per_unit THEN 100 ELSE 1
    IN  [total_exchange |-> hvdc * ratio + ac,
         ac_exchange |-> ac * ratio,
         hvdc_exchange |-> hvdc * ratio]

\* lines 302-342
calculate_exchange(network, hvdcs_border, country1, country2) ==
    LET ac == AcExchange(BranchesBorder(network, country1, country2), country1)
        hvdc == HvdcExchange(hvdcs_border, country1)
        hvdc_exchange == IF network.per_unit THEN hvdc * 100 ELSE hvdc
        ac_exchange == IF network.per_unit THEN ac * 100 ELSE ac
    IN  [total_exchange |-> hvdc_exchange + ac_exchange,
         ac_exchange |-> ac_exchange,
         hvdc_exchange |-> hvdc_exchange]

(***************************************************************************)
(* The exchange computed as main does, lines 183-184, on a drawn network.  *)
(***************************************************************************)
\* the networks drawn: three voltage levels, two AC branches, two HVDC links
ExNetworks ==
    {[country |-> [v \in VoltageLevels |-> IF v = "V1" THEN "FR" ELSE IF v = "V2" THEN c2 ELSE c3],
      branches |-> [b \in {"B1", "B2"} |->
                      IF b = "B1"
                      THEN [voltage_level1_id |-> e1[1], voltage_level2_id |-> e1[2],
                            p1 |-> 3, p2 |-> -2]
                      ELSE [voltage_level1_id |-> e2[1], voltage_level2_id |-> e2[2],
                            p1 |-> -5, p2 |-> 7]],
      hvdcs |-> [h \in {"H1", "H2"} |->
                      IF h = "H1"
                      THEN [voltage_level1_id |-> e3[1], voltage_level2_id |-> e3[2],
                            connected1 |-> TRUE, connected2 |-> k1,
                            converters_mode |-> m1, p1 |-> 4, p2 |-> -3]
                      ELSE [voltage_level1_id |-> "V1", voltage_level2_id |-> "V3",
                            connected1 |-> k2, connected2 |-> k2,
                            converters_mode |-> SIDE_1_RECTIFIER_SIDE_2_INVERTER,
                            p1 |-> 6, p2 |-> -6]],
      per_unit |-> pu] :
        c2 \in {"FR", "ES"}, c3 \in {"ES", "BE"},
        e1 \in VoltageLevels \X VoltageLevels, e2 \in VoltageLevels \X VoltageLevels,
        e3 \in VoltageLevels \X VoltageLevels,
        k1 \in BOOLEAN, k2 \in BOOLEAN,
        m1 \in {SIDE_1_RECTIFIER_SIDE_2_INVERTER, SIDE_1_INVERTER_SIDE_2_RECTIFIER},
        pu \in BOOLEAN}

InitExchange ==
    /\ MainIdle /\ HdIdle /\ AuxIdle
    /\ \E network \in ExNetworks, border \in {<<"FR", "ES">>, <<"ES", "FR">>} :
          ex_in = [network |-> network, country1 |-> border[1], country2 |-> border[2]]
    /\ ex_out = [stage |-> "start", hvdc_df |-> <<>>, branches_border |-> {},
                 situation_description |->
                    [total_exchange |-> 0, ac_exchange |-> 0, hvdc_exchange |-> 0]]

\* calculate_sensitivities.py:183
AddExchangeSign ==
    /\ ex_out.stage = "start"
    /\ ex_out' = [ex_out EXCEPT
                    !.stage = "signed",
                    !.hvdc_df = add_exchange_sign_to_hvdc_df(ex_in.network,
                                    ex_in.country1, ex_in.country2)]
    /\ UNCHANGED <<ex_in, varsMain, varsHd, varsAux>>

\* calculate_sensitivities.py:184
CalculateExchange ==
    /\ ex_out.stage = "signed"
    /\ ex_out' = [ex_out EXCEPT
                    !.stage = "done",
                    !.branches_border =
                        DOMAIN BranchesBorder(ex_in.network, ex_in.country1, ex_in.country2),
                    !.situation_description =
                        calculate_exchange(ex_in.network, ex_out.hvdc_df,
                                           ex_in.country1, ex_in.country2)]
    /\ UNCHANGED <<ex_in, varsMain, varsHd, varsAux>>

NextExchange == AddExchangeSign \/ CalculateExchange

SpecExchange == InitExchange /\ [][NextExchange]_vars

(***************************************************************************)
(* Properties of the exchange computation.                                 *)
(***************************************************************************)
ExNet == ex_in.network
ExBranches == BranchesJoined(ExNet)

\* the branch's two sides lie in opposite countries of {country1, country2}
Crosses(row) ==
    \/ row.country_or = ex_in.country1 /\ row.country_end = ex_in.country2
    \/ row.country_or = ex_in.country2 /\ row.country_end = ex_in.country1

\* one of the branch's voltage levels has fewer than 2 incident branches
IsStub(b) ==
    \/ IncidentBranches(ExBranches, ExBranches[b].voltage_level1_id) < 2
    \/ IncidentBranches(ExBranches, ExBranches[b].voltage_level2_id) < 2

\* C7 (as claimed): a stub branch whose two sides lie in opposite countries
\* is not in the border-branch set of calculate_exchange, in either
\* orientation, so it adds nothing to ac_exchange
C7_StubNotBorder ==
    ex_out.stage = "done" =>
        \A b \in DOMAIN ExBranches :
            IsStub(b) /\ Crosses(ExBranches[b]) => b \notin ex_out.branches_border

ConnectedLinks ==
    {h \in DOMAIN ExNet.hvdcs : ExNet.hvdcs[h].connected1 /\ ExNet.hvdcs[h].connected2}

LinkCountries(h) ==
    [country_or |-> ExNet.country[ExNet.hvdcs[h].voltage_level1_id],
     country_end |-> ExNet.country[ExNet.hvdcs[h].voltage_level2_id]]

NoHvdcCrosses == \A h \in ConnectedLinks : ~Crosses(LinkCountries(h))
NoAcCrosses == \A b \in DOMAIN ExBranches : ~Crosses(ExBranches[b])

\* C8: calculate_exchange returns total_exchange = ac_exchange +
\* hvdc_exchange; with no HVDC link across the border hvdc_exchange = 0 and
\* the total is the AC part; with no AC branch across the border
\* ac_exchange = 0 and the total is the HVDC part
C8_ExchangeDecomposition ==
    ex_out.stage = "done" =>
        LET r == ex_out.situation_description
        IN  /\ r.total_exchange = r.ac_exchange + r.hvdc_exchange
            /\ NoHvdcCrosses => r.hvdc_exchange = 0 /\ r.total_exchange = r.ac_exchange
            /\ NoAcCrosses => r.ac_exchange = 0 /\ r.total_exchange = r.hvdc_exchange

\* C8 witness: a mixed border in per-unit, both parts non-zero
C8_Witness ==
    /\ ex_out.stage = "done"
    /\ ExNet.per_unit
    /\ ex_out.situation_description.ac_exchange # 0
    /\ ex_out.situation_description.hvdc_exchange # 0
    /\ ex_out.situation_description.total_exchange # 0

\* C9: add_exchange_sign_to_hvdc_df keeps exactly the links connected at both
\* sides whose sides lie in country1 and country2 in either order; each has
\* exchange_sign +1 (side 1 in country1) or -1 (side 1 in country2), negated
\* when converters_mode is SIDE_1_INVERTER_SIDE_2_RECTIFIER; never 0
C9_ExchangeSign ==
    ex_out.stage # "start" =>
        /\ DOMAIN ex_out.hvdc_df = {h \in ConnectedLinks : Crosses(LinkCountries(h))}
        /\ \A h \in DOMAIN ex_out.hvdc_df :
            LET sign == ex_out.hvdc_df[h].exchange_sign
                geo == IF LinkCountries(h).country_or = ex_in.country1 THEN 1 ELSE -1
            IN  /\ sign \in {1, -1}
                /\ sign = IF ExNet.hvdcs[h].converters_mode = SIDE_1_INVERTER_SIDE_2_RECTIFIER
                          THEN -geo ELSE geo

\* C9 witness: a kept link from country2 to country1 in inverter/rectifier
\* mode (sign +1) beside a disconnected link across the border (dropped)
C9_Witness ==
    /\ ex_out.stage = "signed"
    /\ \E h \in DOMAIN ex_out.hvdc_df :
          /\ ex_out.hvdc_df[h].country_or = ex_in.country2
          /\ ex_out.hvdc_df[h].converters_mode = SIDE_1_INVERTER_SIDE_2_RECTIFIER
          /\ ex_out.hvdc_df[h].exchange_sign = 1
    /\ \E h \in DOMAIN ExNet.hvdcs :
          h \notin ConnectedLinks /\ Crosses(LinkCountries(h))

(***************************************************************************)
(* aux.py: get_hvdc_data, the merged HVDC levers.                          *)
(***************************************************************************)
HvdcIds == {"A1", "A1bis", "C1"}
\* what may precede the last character of an id of HvdcIds
IdStems == {"A", "A1bi", "C"}

\* merged_hvdc.endswith("1")
EndsWith1(id) == \E stem \in IdStems : id = stem \o "1"

\* sum(f[x] for x in list)
RECURSIVE SumList(_, _)
SumList(f, list) ==
    IF list = <<>> THEN 0 ELSE f[Head(list)] + SumList(f, Tail(list))

\* a slip: every active link is a member of every lever
MergedMembers_all(hvdc_df, active_hvdc_lines_ids, hvdc_origin) == active_hvdc_lines_ids

\* line 423: hvdc_df[hvdc_df["voltage_level_id_or"] == hvdc_origin].index.to_list(),
\* hvdc_df being the rows of the active links in the order of the list
MergedMembers(hvdc_df, active_hvdc_lines_ids, hvdc_origin) ==
    SelectSeq(active_hvdc_lines_ids,
              LAMBDA h : hvdc_df[h].voltage_level_id_or = hvdc_origin)

\* lines 421-424: hvdc_map
HvdcMap(hvdc_df, active_hvdc_lines_ids) ==
    LET ids == {active_hvdc_lines_ids[i] : i \in 1..Len(active_hvdc_lines_ids)}
    IN  [merged_hvdc \in {h \in ids : EndsWith1(h)} |->
            MergedMembers(hvdc_df, active_hvdc_lines_ids,
                          hvdc_df[merged_hvdc].voltage_level_id_or)]

\* lines 427-435: hvdc_dict
HvdcDict(hvdc_df, hvdc_map, per_unit) ==
    LET pu_ratio == IF per_unit THEN 100 ELSE 1
    IN  [merged_hvdc_name \in DOMAIN hvdc_map |->
            [referenceSetpoint |->
                pu_ratio * SumList([h \in DOMAIN hvdc_df |->
                                      hvdc_df[h].target_p * hvdc_df[h].exchange_sign],
                                   hvdc_map[merged_hvdc_name]),
             min |-> -pu_ratio * SumList([h \in DOMAIN hvdc_df |-> hvdc_df[h].max_p],
                                         hvdc_map[merged_hvdc_name]),
             max |-> pu_ratio * SumList([h \in DOMAIN hvdc_df |-> hvdc_df[h].max_p],
                                        hvdc_map[merged_hvdc_name])]]

\* lines 418-436
get_hvdc_data(hvdc_df, active_hvdc_lines_ids, per_unit) ==
    LET hvdc_map == HvdcMap(hvdc_df, active_hvdc_lines_ids)
    IN  <<hvdc_map, HvdcDict(hvdc_df, hvdc_map, per_unit)>>

\* the tables drawn: one row per link of HvdcIds
HvdcTables ==
    [HvdcIds -> [voltage_level_id_or : {"V1", "V2"},
                 target_p : {2, 5},
                 exchange_sign : {1, -1},
                 max_p : {10, 1000}]]

InitHvdcData ==
    /\ MainIdle /\ ExIdle /\ AuxIdle
    /\ \E hvdc_df \in HvdcTables, active \in SUBSET HvdcIds, per_unit \in BOOLEAN :
          hd_in = [hvdc_df |-> hvdc_df, active_hvdc_lines_ids |-> SetToList(active),
                   per_unit |-> per_unit]
    /\ hd_out = [done |-> FALSE, hvdc_map |-> <<>>, hvdc_dict |-> <<>>]

\* calculate_sensitivities.py:187 (per_unit = True there) and direct calls
GetHvdcData ==
    /\ ~hd_out.done
    /\ LET r == get_hvdc_data(hd_in.hvdc_df, hd_in.active_hvdc_lines_ids, hd_in.per_unit)
       IN  hd_out' = [done |-> TRUE, hvdc_map |-> r[1], hvdc_dict |-> r[2]]
    /\ UNCHANGED <<hd_in, varsMain, varsEx, varsAux>>

NextHvdcData == GetHvdcData

SpecHvdcData == InitHvdcData /\ [][NextHvdcData]_vars

(***************************************************************************)
(* Properties of the merged levers.                                        *)
(***************************************************************************)
ActiveIds == {hd_in.active_hvdc_lines_ids[i] : i \in 1..Len(hd_in.active_hvdc_lines_ids)}

\* the active links whose side-1 voltage level is that of link m
SameOrigin(m) ==
    {h \in ActiveIds :
        hd_in.hvdc_df[h].voltage_level_id_or = hd_in.hvdc_df[m].voltage_level_id_or}

BaseRatio == IF hd_in.per_unit THEN 100 ELSE 1

\* C10: every merged lever has max = base ratio * sum of its members' max_p,
\* min = -max, referenceSetpoint = base ratio * sum of its members' target_p *
\* exchange_sign (base ratio 100 in per-unit, 1 otherwise); two parallel
\* circuits of max power 1000 each give the bounds -2000 and +2000
C10_MergedLeverBounds ==
    hd_out.done =>
        \A m \in DOMAIN hd_out.hvdc_dict :
            LET lever == hd_out.hvdc_dict[m]
                df == hd_in.hvdc_df
                members == SameOrigin(m)
            IN  /\ lever.max = BaseRatio * SumOver([h \in HvdcIds |-> df[h].max_p], members)
                /\ lever.min = -lever.max
                /\ lever.referenceSetpoint =
                      BaseRatio * SumOver([h \in HvdcIds |->
                                             df[h].target_p * df[h].exchange_sign], members)
                /\ (/\ Cardinality(members) = 2
                    /\ \A h \in members : BaseRatio * df[h].max_p = 1000)
                      => lever.min = -2000 /\ lever.max = 2000

\* C10 witness: in per-unit, two parallel circuits of 1000 each merged into
\* one lever of bounds -2000, +2000, beside a third active link elsewhere
C10_Witness ==
    /\ hd_out.done
    /\ hd_in.per_unit
    /\ Len(hd_in.active_hvdc_lines_ids) = 3
    /\ \E m \in DOMAIN hd_out.hvdc_dict :
          /\ Len(hd_out.hvdc_map[m]) = 2
          /\ hd_out.hvdc_dict[m].max = 2000
          /\ hd_out.hvdc_dict[m].min = -2000
          /\ hd_out.hvdc_dict[m].referenceSetpoint = -300

\* the members of lever m as a set
Members(m) == {hd_out.hvdc_map[m][i] : i \in 1..Len(hd_out.hvdc_map[m])}

\* C11: active links sharing the same origin (side-1) voltage level form one
\* single merged lever: no two merged levers of the result have the same
\* origin voltage level, and no link is a member of two merged levers
C11_OneLeverPerOrigin ==
    hd_out.done =>
        \A m1, m2 \in DOMAIN hd_out.hvdc_map :
            m1 # m2 =>
                /\ hd_in.hvdc_df[m1].voltage_level_id_or # hd_in.hvdc_df[m2].voltage_level_id_or
                /\ Members(m1) \cap Members(m2) = {}


(***************************************************************************)
(* aux.py: get_hvdc_sensitivities_from_generators, and the fold of one     *)
(* converged case into the result dictionaries of main.                    *)
(* A raw matrix cell is <<v>>, v in units of 1e-7, or NaN; a cell after    *)
(* round(6).fillna(0) is an integer in units of 1e-6.  Coefficients of     *)
(* counter trading are integers in units of 1/4.                           *)
(***************************************************************************)
NaN == <<>>

\* DataFrame.round(6) on one cell: half to even, NaN stays NaN
Round6(cell) ==
    IF cell = NaN THEN NaN
    ELSE LET q == cell[1] \div 10
             r == cell[1] % 10
         IN  <<IF r < 5 THEN q
               ELSE IF r > 5 THEN q + 1
               ELSE IF q % 2 = 0 THEN q ELSE q + 1>>

\* DataFrame.fillna(0) on one cell
FillNa0(cell) == IF cell = NaN THEN 0 ELSE cell[1]

\* result.get_sensitivity_matrix(matrix_name).round(6).fillna(0)
RoundedMatrix(matrix) ==
    [row \in DOMAIN matrix |->
        [col \in DOMAIN matrix[row] |-> FillNa0(Round6(matrix[row][col]))]]

\* DataFrame.to_dict(): column -> (row -> value)
ToDict(df, columns) == [col \in columns |-> [row \in DOMAIN df |-> df[row][col]]]

\* a slip: the rows are not dropped
DropRows_none(df, labels) == df

\* DataFrame.drop(labels)
DropRows(df, labels) == [row \in DOMAIN df \ labels |-> df[row]]

\* dict.get(key, default)
DictGet(d, key, default) == IF key \in DOMAIN d THEN d[key] ELSE default

\* dict.update(other)
DictUpdate(d, other) == other @@ d

\* a slip: the origin terminal's sensitivity minus the end terminal's
summed_col_reversed(df, hvdc_row, columns) ==
    [col \in columns |-> df[hvdc_row.origin][col] - df[hvdc_row.end][col]]

\* aux.py:471-472
summed_col(df, hvdc_row, columns) ==
    [col \in columns |-> df[hvdc_row.end][col] - df[hvdc_row.origin][col]]

\* aux.py:470-474: the loop over the rows of fict_gen still to visit; a row
\* whose generator has been dropped already raises KeyError
RECURSIVE HvdcLoop(_, _, _, _)
HvdcLoop(df, fict_gen, levers, columns) ==
    IF levers = <<>> THEN [raised |-> FALSE, df |-> df, hvdc |-> <<>>]
    ELSE LET hvdc_name == Head(levers)
             hvdc_row == fict_gen[hvdc_name]
         IN  IF {hvdc_row.origin, hvdc_row.end} \subseteq DOMAIN df
             THEN LET rest == HvdcLoop(DropRows(df, {hvdc_row.origin, hvdc_row.end}),
                                       fict_gen, Tail(levers), columns)
                  IN  [raised |-> rest.raised, df |-> rest.df,
                       hvdc |-> (hvdc_name :> summed_col(df, hvdc_row, columns)) @@ rest.hvdc]
             ELSE [raised |-> TRUE, df |-> df, hvdc |-> <<>>]

\* aux.py:480: ~sensitivities_df.index.isin(generators_to_ct.keys())
gens_rows(df, generators_to_ct) == DOMAIN df \ DOMAIN generators_to_ct

\* a slip: the plain sum of the counter-trading generators' sensitivities
countertrading_sum_unweighted(df, generators_to_ct, col) ==
    SumOver([g \in DOMAIN df |-> df[g][col]], DOMAIN df \cap DOMAIN generators_to_ct)

\* aux.py:477-479: countertrading_df.mul(countertrading_coefficient, axis=0).sum()
\* on one column, countertrading_df being the rows of the generators_to_ct keys
countertrading_sum(df, generators_to_ct, col) ==
    SumOver([g \in DOMAIN df \cap DOMAIN generators_to_ct |-> df[g][col] * generators_to_ct[g]],
            DOMAIN df \cap DOMAIN generators_to_ct)

\* aux.py:464-481; fict_gen_index is fict_gen.index, the levers in row order
get_hvdc_sensitivities_from_generators(matrix, columns, fict_gen, fict_gen_index, generators_to_ct) ==
    LET loop == HvdcLoop(RoundedMatrix(matrix), fict_gen, fict_gen_index, columns)
        sensitivities_df == loop.df
    IN  [raised |-> loop.raised,
         hvdc_sensitivities_dict |-> ToDict(loop.hvdc, columns),
         gens_sensitivities_dict |->
            ToDict([g \in gens_rows(sensitivities_df, generators_to_ct) |-> sensitivities_df[g]],
                   columns),
         countertrading_dict |->
            [col \in columns |-> countertrading_sum(sensitivities_df, generators_to_ct, col)]]

\* aux.py:484-489: a one-row frame, NaN replaced, the row renamed
get_reference_current_dictionnary(reference, columns) ==
    [col \in columns |-> [referenceCurrent |-> FillNa0(reference[col])]]

\* aux.py:492-496
get_pst_sensitivities(matrix, columns) == ToDict(RoundedMatrix(matrix), columns)

\* the variables of the sensitivity analysis besides the fictitious generators
SnGenerators == {"G1", "G2"}
SnActivePsts == {"P1"}

\* the links that are levers, each with the voltage levels of its two stations
SnHvdcDf ==
    [A1 |-> [voltage_level_id1 |-> "V1", voltage_level_id2 |-> "V2"],
     C1 |-> [voltage_level_id1 |-> "V3", voltage_level_id2 |-> "V4"]]

\* aux.py:260-267, 297: the table add_generators_at_hvdcs_extremities returns
hvdc_to_fictitious_gen(hvdc_df, hvdc_list) ==
    [hvdc_line \in {hvdc_list[i] : i \in 1..Len(hvdc_list)} |->
        [origin |-> hvdc_df[hvdc_line].voltage_level_id1 \o "_fict_hvdc_gen",
         end |-> hvdc_df[hvdc_line].voltage_level_id2 \o "_fict_hvdc_gen"]]

\* the generator ids of a table of fictitious generators
FictGenIds(fict_gen) ==
    {fict_gen[h].origin : h \in DOMAIN fict_gen} \cup {fict_gen[h].end : h \in DOMAIN fict_gen}

\* the raw matrices a solver may return for these rows and columns
Matrices(generators, fict, columns, raw_generators, raw_fict) ==
    {g @@ f : g \in [generators -> [columns -> raw_generators]],
              f \in [fict -> [columns -> raw_fict]]}

\* calculate_sensitivities.py:255-261: branches_sensitivities[branch_name][case_name]
BranchCaseEntry(d, branch_name) ==
    LET ref_current == d.branches_reference_dict[branch_name]
        gens == DictUpdate(ref_current, DictGet(d.gens_sensitivities_dict, branch_name, <<>>))
        psts == DictUpdate(gens, DictGet(d.psts_sensitivities_dict, branch_name, <<>>))
        hvdc == DictUpdate(psts, DictGet(d.hvdc_sensitivities_dict, branch_name, <<>>))
    IN  DictSet(hvdc, "counter_trading", DictGet(d.ct_sensitivities_dict, branch_name, 0))

\* calculate_sensitivities.py:263-270: ac_eq_sensitivities[hvdc_name][case_name]
AcEqCaseEntry(d, hvdc_name) ==
    LET hvdc_eq_line == AcEqLine(hvdc_name)
        ref == DictUpdate(<<>>, DictGet(d.hvdc_reference_dict, hvdc_eq_line, <<>>))
        gens == DictUpdate(ref, DictGet(d.hvdc_gens_sensitivities_dict, hvdc_eq_line, <<>>))
        psts == DictUpdate(gens, DictGet(d.hvdc_psts_sensitivities_dict, hvdc_eq_line, <<>>))
        hvdc == DictUpdate(psts, DictGet(d.hvdc_hvdc_sensitivities_dict, hvdc_eq_line, <<>>))
    IN  DictSet(hvdc, "counter_trading", DictGet(d.hvdc_ct_sensitivities_dict, hvdc_name, 0))

\* the inputs drawn: zero to two levers, the counter-trading coefficients,
\* the links converted to an equivalent branch, the solver's matrices
InitSensi ==
    /\ MainIdle /\ ExIdle /\ HdIdle /\ AnIdle /\ DrIdle /\ MbIdle /\ MoreIdle
    /\ \E hvdc_list \in {<<>>, <<"A1">>, <<"A1", "C1">>},
          generators_for_ct \in {<<>>, [g \in {"G1"} |-> 2],
                                 [g \in SnGenerators |-> IF g = "G1" THEN 1 ELSE -3]},
          emu \in SUBSET {"A1"} :
          LET fict_gen == hvdc_to_fictitious_gen(SnHvdcDf, hvdc_list)
              eq_lines == {AcEqLine(h) : h \in emu}
          IN  \E generators \in Matrices(SnGenerators, FictGenIds(fict_gen), {"L1"},
                                         {NaN, <<6>>, <<-27>>}, {NaN, <<14>>}),
                 generators_ac_eq_line \in Matrices(SnGenerators, FictGenIds(fict_gen), eq_lines,
                                                    {<<4>>, <<35>>}, {NaN, <<-16>>}) :
                 sn_in = [result |->
                            [generators |-> generators,
                             psts |-> [p \in SnActivePsts |-> [col \in {"L1"} |-> <<14>>]],
                             generators_ac_eq_line |-> generators_ac_eq_line,
                             psts_ac_eq_line |-> [p \in SnActivePsts |-> [col \in eq_lines |-> NaN]],
                             reference_generators |-> [col \in {"L1"} |-> <<500>>],
                             reference_generators_ac_eq_line |-> [col \in eq_lines |-> NaN]],
                          fict_gen |-> fict_gen,
                          fict_gen_index |-> hvdc_list,
                          generators_for_ct |-> generators_for_ct,
                          monitored_branches_ids |-> {"L1"},
                          hvdc_emulation_lines_ids |-> emu,
                          ac_eq_line_hvdc_lines_ids |-> eq_lines]
    /\ sn_out = [stage |-> "start"]

\* calculate_sensitivities.py:244-253, after launch_sensitivity_analysis
GetSensitivityDicts ==
    /\ sn_out.stage = "start"
    /\ LET r == sn_in.result
           branches == get_hvdc_sensitivities_from_generators(
                           r.generators, sn_in.monitored_branches_ids, sn_in.fict_gen,
                           sn_in.fict_gen_index, sn_in.generators_for_ct)
           hvdc == get_hvdc_sensitivities_from_generators(
                           r.generators_ac_eq_line, sn_in.ac_eq_line_hvdc_lines_ids,
                           sn_in.fict_gen, sn_in.fict_gen_index, sn_in.generators_for_ct)
       IN  IF branches.raised \/ hvdc.raised
           THEN sn_out' = [stage |-> "raised"]
           ELSE sn_out' =
                  [stage |-> "dicts",
                   hvdc_sensitivities_dict |-> branches.hvdc_sensitivities_dict,
                   gens_sensitivities_dict |-> branches.gens_sensitivities_dict,
                   ct_sensitivities_dict |-> branches.countertrading_dict,
                   hvdc_hvdc_sensitivities_dict |-> hvdc.hvdc_sensitivities_dict,
                   hvdc_gens_sensitivities_dict |-> hvdc.gens_sensitivities_dict,
                   hvdc_ct_sensitivities_dict |-> hvdc.countertrading_dict,
                   branches_reference_dict |->
                      get_reference_current_dictionnary(r.reference_generators,
                                                        sn_in.monitored_branches_ids),
                   psts_sensitivities_dict |->
                      get_pst_sensitivities(r.psts, sn_in.monitored_branches_ids),
                   hvdc_reference_dict |->
                      get_reference_current_dictionnary(r.reference_generators_ac_eq_line,
                                                        sn_in.ac_eq_line_hvdc_lines_ids),
                   hvdc_psts_sensitivities_dict |->
                      get_pst_sensitivities(r.psts_ac_eq_line, sn_in.ac_eq_line_hvdc_lines_ids)]
    /\ UNCHANGED <<sn_in, varsMain, varsEx, varsHd, varsAn, varsDr, varsMb, varsMore>>

\* calculate_sensitivities.py:255-270: the entries of the case; main gets here
\* with one lever at least, line 202 raising KeyError on a fict_gen table
\* without rows (it has no column "origin")
FoldCase ==
    /\ sn_out.stage = "dicts"
    /\ sn_in.fict_gen_index # <<>>
    /\ sn_out' =
          [sn_out EXCEPT !.stage = "folded"] @@
          [branches_sensitivities |->
              [branch_name \in DOMAIN sn_out.branches_reference_dict |->
                  BranchCaseEntry(sn_out, branch_name)],
           ac_eq_sensitivities |->
              [hvdc_name \in sn_in.hvdc_emulation_lines_ids |->
                  AcEqCaseEntry(sn_out, hvdc_name)]]
    /\ UNCHANGED <<sn_in, varsMain, varsEx, varsHd, varsAn, varsDr, varsMb, varsMore>>

NextSensi == GetSensitivityDicts \/ FoldCase

SpecSensi == InitSensi /\ [][NextSensi]_vars

(***************************************************************************)
(* Properties of the sensitivity dictionaries.                             *)
(***************************************************************************)
\* the dictionaries of the case have been computed
SnComputed == sn_out.stage \in {"dicts", "folded"}

\* the cell of a raw matrix once rounded to 6 decimals and NaN replaced by 0
Rounded(matrix, row, col) == FillNa0(Round6(matrix[row][col]))

\* C12: for every HVDC lever and every monitored branch, the lever's
\* sensitivity is the sensitivity of its end-terminal fictitious generator
\* minus that of its origin-terminal fictitious generator, both read in the
\* rounded, NaN-replaced matrix (and likewise on the equivalent branches)
C12_LeverIsEndMinusOrigin ==
    SnComputed =>
        \A hvdc_name \in DOMAIN sn_in.fict_gen :
            LET origin == sn_in.fict_gen[hvdc_name].origin
                end == sn_in.fict_gen[hvdc_name].end
            IN  /\ \A branch \in sn_in.monitored_branches_ids :
                      sn_out.hvdc_sensitivities_dict[branch][hvdc_name] =
                          Rounded(sn_in.result.generators, end, branch)
                          - Rounded(sn_in.result.generators, origin, branch)
                /\ \A eq \in sn_in.ac_eq_line_hvdc_lines_ids :
                      sn_out.hvdc_hvdc_sensitivities_dict[eq][hvdc_name] =
                          Rounded(sn_in.result.generators_ac_eq_line, end, eq)
                          - Rounded(sn_in.result.generators_ac_eq_line, origin, eq)

\* C12 witness: two levers, the first with a NaN at its end terminal and
\* 1.4e-6 at its origin terminal (sensitivity -1e-6), the second the reverse
C12_Witness ==
    /\ SnComputed
    /\ DOMAIN sn_in.fict_gen = {"A1", "C1"}
    /\ sn_in.result.generators[sn_in.fict_gen["A1"].end]["L1"] = NaN
    /\ sn_in.result.generators[sn_in.fict_gen["A1"].origin]["L1"] = <<14>>
    /\ sn_out.hvdc_sensitivities_dict["L1"]["A1"] = -1
    /\ sn_out.hvdc_sensitivities_dict["L1"]["C1"] = 1

\* the fictitious terminal generators of the levers
SnFictGenIds == FictGenIds(sn_in.fict_gen)

\* C13: no fictitious terminal generator id is a lever key of the generators'
\* table returned by get_hvdc_sensitivities_from_generators, nor of any
\* per-branch (or per-equivalent-branch) entry of the case in main, whatever
\* the number of levers
C13_NoFictitiousGeneratorKey ==
    /\ SnComputed =>
          /\ \A branch \in DOMAIN sn_out.gens_sensitivities_dict :
                DOMAIN sn_out.gens_sensitivities_dict[branch] \cap SnFictGenIds = {}
          /\ \A eq \in DOMAIN sn_out.hvdc_gens_sensitivities_dict :
                DOMAIN sn_out.hvdc_gens_sensitivities_dict[eq] \cap SnFictGenIds = {}
    /\ sn_out.stage = "folded" =>
          /\ \A branch \in DOMAIN sn_out.branches_sensitivities :
                DOMAIN sn_out.branches_sensitivities[branch] \cap SnFictGenIds = {}
          /\ \A hvdc_name \in DOMAIN sn_out.ac_eq_sensitivities :
                DOMAIN sn_out.ac_eq_sensitivities[hvdc_name] \cap SnFictGenIds = {}

\* C13 witness: two levers, four fictitious generators in the matrices, and
\* the entry of branch L1 made of the reference, both generators, the PST,
\* both levers and counter_trading
C13_Witness ==
    /\ sn_out.stage = "folded"
    /\ Cardinality(SnFictGenIds) = 4
    /\ SnFictGenIds \subseteq DOMAIN sn_in.result.generators
    /\ DOMAIN sn_out.branches_sensitivities["L1"] =
          {"referenceCurrent", "G1", "G2", "P1", "A1", "C1", "counter_trading"}
    /\ DOMAIN sn_out.ac_eq_sensitivities = {"A1"}

\* the weighted sum of the counter-trading generators' rounded sensitivities
\* in one column of a raw matrix
WeightedSum(matrix, col) ==
    SumOver([g \in DOMAIN sn_in.generators_for_ct |->
                sn_in.generators_for_ct[g] * Rounded(matrix, g, col)],
            DOMAIN sn_in.generators_for_ct)

\* C14: for every monitored branch of a converged case, the entry
\* 'counter_trading' is the sum over the counter-trading generators g of
\* coefficient(g) * sensitivity(branch, g); no counter-trading generator is
\* a key of the entry; the value is 0 without counter-trading generator
C14_CounterTradingIsWeightedSum ==
    sn_out.stage = "folded" =>
        \A branch \in sn_in.monitored_branches_ids :
            LET entry == sn_out.branches_sensitivities[branch]
            IN  /\ entry["counter_trading"] = WeightedSum(sn_in.result.generators, branch)
                /\ DOMAIN entry \cap DOMAIN sn_in.generators_for_ct = {}
                /\ DOMAIN sn_in.generators_for_ct = {} => entry["counter_trading"] = 0

\* C14 witness: coefficients 1/4 for G1 and -3/4 for G2, sensitivities 1e-6
\* and -3e-6 on L1: counter_trading is 10 and neither generator is a key
C14_Witness ==
    /\ sn_out.stage = "folded"
    /\ DOMAIN sn_in.generators_for_ct = {"G1", "G2"}
    /\ sn_in.result.generators["G1"]["L1"] = <<6>>
    /\ sn_in.result.generators["G2"]["L1"] = <<-27>>
    /\ sn_out.branches_sensitivities["L1"]["counter_trading"] = 10
    /\ {"G1", "G2"} \cap DOMAIN sn_out.branches_sensitivities["L1"] = {}

\* C15: for every equivalent HVDC branch of a converged case, the entry
\* 'counter_trading' reported under sensitivities.hvdc is the weighted sum,
\* with the redispatch coefficients, of the counter-trading generators'
\* sensitivities on that equivalent branch, as for the monitored branches
C15_AcEqCounterTradingIsWeightedSum ==
    sn_out.stage = "folded" =>
        \A hvdc_name \in sn_in.hvdc_emulation_lines_ids :
            sn_out.ac_eq_sensitivities[hvdc_name]["counter_trading"] =
                WeightedSum(sn_in.result.generators_ac_eq_line, AcEqLine(hvdc_name))

(***************************************************************************)
(* aux.py: adjust_network.  Reactances are integers in units of 1e-6.      *)
(***************************************************************************)
\* aux.py:26: 1e-5, in units of 1e-6
MIN_IMPEDANCE == 10

\* at most this many calls of adjust_network on the same network
MaxAdjust == 2

\* abs(x)
Abs(x) == IF x < 0 THEN -x ELSE x

\* a slip: zero is given the negative sign
max_impedance_if_needed_zero_negative(x) ==
    IF Abs(x) < MIN_IMPEDANCE
    THEN IF x > 0 THEN MIN_IMPEDANCE ELSE -MIN_IMPEDANCE
    ELSE x

\* a slip: the minimal impedance is added to every reactance
max_impedance_if_needed_added(x) ==
    IF x >= 0 THEN x + MIN_IMPEDANCE ELSE x - MIN_IMPEDANCE

\* aux.py:72-77
max_impedance_if_needed(x) ==
    IF Abs(x) < MIN_IMPEDANCE
    THEN IF x >= 0 THEN MIN_IMPEDANCE ELSE -MIN_IMPEDANCE
    ELSE x

\* aux.py:33-87; an update of a table without rows changes nothing, so the
\* tests len(...) != 0 need no case of their own
adjust_network(network) ==
    [network EXCEPT
        !.hvdc_lines = [h \in DOMAIN @ |-> [@[h] EXCEPT !.r = 0]],
        !.vsc_converter_stations =
            [v \in DOMAIN @ |-> [@[v] EXCEPT !.loss_factor = 0,
                                           !.voltage_regulator_on = FALSE]],
        !.batteries = [b \in DOMAIN @ |-> [@[b] EXCEPT !.connected = FALSE]],
        !.lines = [l \in DOMAIN @ |-> [@[l] EXCEPT !.x = max_impedance_if_needed(@)]],
        !.t2wts = [t \in DOMAIN @ |-> [@[t] EXCEPT !.x = max_impedance_if_needed(@)]]]

\* the tables with the ids of ids, each row drawn from rows
TablesOver(ids, rows) == UNION {[present -> rows] : present \in SUBSET ids}

\* the networks drawn: with and without an HVDC link, its stations and a
\* battery, one line and at most one transformer, reactances on both sides
\* of the threshold and of zero
AnReactances == {-20, -10, -3, 0, 3, 10, 20}

AnNetworks ==
    [hvdc_lines : TablesOver({"H1"}, [r : {0, 5}]),
     vsc_converter_stations :
        TablesOver({"S1"}, [loss_factor : {0, 1}, voltage_regulator_on : BOOLEAN]),
     batteries : TablesOver({"B1"}, [connected : BOOLEAN]),
     lines : [{"L1"} -> [x : AnReactances]],
     t2wts : TablesOver({"T1"}, [x : AnReactances])]

InitAdjust ==
    /\ MainIdle /\ ExIdle /\ HdIdle /\ SnIdle /\ DrIdle /\ MbIdle /\ MoreIdle
    /\ an_in \in AnNetworks
    /\ an_out = [applied |-> 0, network |-> an_in, once |-> an_in]

\* calculate_sensitivities.py:89, and a further call on the network returned
AdjustNetwork ==
    /\ an_out.applied < MaxAdjust
    /\ LET network == adjust_network(an_out.network)
       IN  an_out' = [applied |-> an_out.applied + 1,
                      network |-> network,
                      once |-> IF an_out.applied = 0 THEN network ELSE an_out.once]
    /\ UNCHANGED <<an_in, varsMain, varsEx, varsHd, varsSn, varsDr, varsMb, varsMore>>

NextAdjust == AdjustNetwork

SpecAdjust == InitAdjust /\ [][NextAdjust]_vars

(***************************************************************************)
(* Properties of adjust_network.                                           *)
(***************************************************************************)
\* C16: after adjust_network every line and 2-winding transformer reactance
\* x has |x| >= 1e-5: a value with |x| < 1e-5 has become +1e-5 when it was
\* >= 0 (zero counts as positive) and -1e-5 when it was < 0, and a value
\* with |x| >= 1e-5 is unchanged
C16_MinimalReactance ==
    an_out.applied = 1 =>
        \A table \in {"lines", "t2wts"} :
            \A e \in DOMAIN an_in[table] :
                LET before == an_in[table][e].x
                    after == an_out.network[table][e].x
                IN  /\ after >= MIN_IMPEDANCE \/ after <= -MIN_IMPEDANCE
                    /\ (-MIN_IMPEDANCE < before /\ before < 0) => after = -MIN_IMPEDANCE
                    /\ (0 <= before /\ before < MIN_IMPEDANCE) => after = MIN_IMPEDANCE
                    /\ (before >= MIN_IMPEDANCE \/ before <= -MIN_IMPEDANCE) => after = before

\* C16 witness: a line of reactance 0 raised to 1e-5 beside a transformer of
\* reactance -3e-6 lowered to -1e-5
C16_Witness ==
    /\ an_out.applied = 1
    /\ an_in.lines["L1"].x = 0
    /\ an_out.network.lines["L1"].x = MIN_IMPEDANCE
    /\ "T1" \in DOMAIN an_in.t2wts
    /\ an_in.t2wts["T1"].x = -3
    /\ an_out.network.t2wts["T1"].x = -MIN_IMPEDANCE

\* C17: adjust_network is idempotent: a second call leaves the network (HVDC
\* resistances, converter loss factors and voltage regulation, battery
\* connection, line and transformer reactances) as the first call left it
C17_AdjustIdempotent ==
    an_out.applied >= 2 => an_out.network = an_out.once

\* C17 witness: a second call on a network the first call changed in every
\* table
C17_Witness ==
    /\ an_out.applied = 2
    /\ an_in.hvdc_lines # an_out.once.hvdc_lines
    /\ an_in.vsc_converter_stations # an_out.once.vsc_converter_stations
    /\ an_in.batteries # an_out.once.batteries
    /\ an_in.lines # an_out.once.lines
    /\ an_in.t2wts # an_out.once.t2wts
    /\ an_out.network = an_out.once

(***************************************************************************)
(* aux.py: create_ac_lines_to_simulate_hvdc_ac_emulation and               *)
(* hvdc_lines_full_setpoint, as main calls them (lines 95-103).  p0 is in  *)
(* MW, target_p in per-unit of base 100 MW.                                *)
(***************************************************************************)
\* the HVDC links of the network; "H9" is an id of the active list that the
\* network does not hold
DrLinks == {"H1", "H2"}
DrActiveIds == {"H1", "H2", "H9"}

\* the sequences that list every element of S once: the orders list(set) may give
Orders(S) ==
    {order \in [1..Cardinality(S) -> S] : \A i, j \in 1..Cardinality(S) :
                                              order[i] = order[j] => i = j}

\* a slip: every droop-enabled link is selected, active or not
DroopSelection_all(network, active_hvdc_lines_ids) ==
    {h \in DOMAIN network.hvdc_angle_droop : network.hvdc_angle_droop[h].enabled}

\* lines 180-184, 93-94: the droop-enabled links of the active list
DroopSelection(network, active_hvdc_lines_ids) ==
    {h \in DOMAIN network.hvdc_angle_droop : network.hvdc_angle_droop[h].enabled}
        \cap active_hvdc_lines_ids

\* lines 193-194, 228-238: the equivalent line of a link, from the rectifier
\* side to the inverter side
AcEqLineRow(hvdc_line) ==
    IF hvdc_line.converters_mode = SIDE_1_RECTIFIER_SIDE_2_INVERTER
    THEN [voltage_level1_id |-> hvdc_line.voltage_level_id_or,
          voltage_level2_id |-> hvdc_line.voltage_level_id_end]
    ELSE [voltage_level1_id |-> hvdc_line.voltage_level_id_end,
          voltage_level2_id |-> hvdc_line.voltage_level_id_or]

\* lines 189-238: the loop over hvdc_lines_ids; hvdc_lines holds the links
\* connected at both sides, and .loc raises KeyError on any other
RECURSIVE CreateLoop(_, _)
CreateLoop(network, hvdc_lines_ids) ==
    IF hvdc_lines_ids = <<>> THEN [raised |-> FALSE, network |-> network]
    ELSE LET hvdc_line_id == Head(hvdc_lines_ids)
             hvdc_line == network.hvdc_lines[hvdc_line_id]
         IN  IF hvdc_line.connected1 /\ hvdc_line.connected2
             THEN CreateLoop([network EXCEPT !.lines =
                                 DictSet(@, AcEqLine(hvdc_line_id), AcEqLineRow(hvdc_line))],
                             Tail(hvdc_lines_ids))
             ELSE [raised |-> TRUE, network |-> network]

\* a slip: the bias is kept in MW
updated_p0_mw(p0) == p0

\* line 241: the droop bias p0, in MW, converted to per unit (base 100 MVA)
updated_p0(p0) == p0 \div 100

\* lines 169-248; hvdc_lines_ids is the selection in the order of list(set)
create_ac_lines_to_simulate_hvdc_ac_emulation(network, hvdc_lines_ids) ==
    IF Len(hvdc_lines_ids) = 0
    THEN [raised |-> FALSE, network |-> network, returned |-> <<>>]
    ELSE LET loop == CreateLoop(network, hvdc_lines_ids)
             ids == {hvdc_lines_ids[i] : i \in 1..Len(hvdc_lines_ids)}
         IN  IF loop.raised
             THEN [raised |-> TRUE, network |-> loop.network, returned |-> <<>>]
             ELSE [raised |-> FALSE,
                   network |->
                      [loop.network EXCEPT !.hvdc_lines =
                          [h \in DOMAIN @ |->
                              IF h \in ids
                              THEN [@[h] EXCEPT !.target_p = updated_p0(network.hvdc_angle_droop[h].p0)]
                              ELSE @[h]]],
                   returned |-> hvdc_lines_ids]

\* lines 90-100
hvdc_lines_full_setpoint(network, active_hvdc_lines_ids) ==
    LET hvdc_lines_ids == DroopSelection(network, active_hvdc_lines_ids)
    IN  [network EXCEPT !.hvdc_angle_droop =
            [h \in DOMAIN @ |-> IF h \in hvdc_lines_ids
                                THEN [@[h] EXCEPT !.enabled = FALSE]
                                ELSE @[h]]]

\* the networks drawn: two links, each connected or not at side 1, each
\* without the droop extension or with it, enabled or not; one AC line
DrNetworks ==
    {[hvdc_lines |->
         [h \in DrLinks |->
             [connected1 |-> c[h], connected2 |-> TRUE, target_p |-> 1,
              converters_mode |-> IF h = "H1" THEN SIDE_1_RECTIFIER_SIDE_2_INVERTER
                                  ELSE SIDE_1_INVERTER_SIDE_2_RECTIFIER,
              voltage_level_id_or |-> "V1", voltage_level_id_end |-> "V2"]],
      hvdc_angle_droop |-> droop,
      lines |-> [l \in {"L1"} |-> [voltage_level1_id |-> "V1", voltage_level2_id |-> "V2"]]] :
        c \in [DrLinks -> BOOLEAN],
        droop \in TablesOver(DrLinks, [enabled : BOOLEAN, p0 : {-200, 300}])}

InitDroop ==
    /\ MainIdle /\ ExIdle /\ HdIdle /\ SnIdle /\ AnIdle /\ MbIdle /\ MoreIdle
    /\ \E network \in DrNetworks, active \in SUBSET DrActiveIds, force_setpoint \in BOOLEAN :
          /\ dr_in = [network |-> network, active_hvdc_lines_ids |-> active,
                      force_setpoint |-> force_setpoint]
          /\ dr_out = [stage |-> "start", network |-> network,
                       hvdc_emulation_lines_ids |-> <<>>]

\* calculate_sensitivities.py:96-97
ForceSetpoint ==
    /\ dr_out.stage = "start"
    /\ dr_in.force_setpoint
    /\ dr_out' = [dr_out EXCEPT !.stage = "created", !.hvdc_emulation_lines_ids = <<>>]
    /\ UNCHANGED <<dr_in, varsMain, varsEx, varsHd, varsSn, varsAn, varsMb, varsMore>>

\* calculate_sensitivities.py:98-99
CreateAcLines ==
    /\ dr_out.stage = "start"
    /\ ~dr_in.force_setpoint
    /\ \E hvdc_lines_ids \in Orders(DroopSelection(dr_out.network, dr_in.active_hvdc_lines_ids)) :
          LET r == create_ac_lines_to_simulate_hvdc_ac_emulation(dr_out.network, hvdc_lines_ids)
          IN  dr_out' = [stage |-> IF r.raised THEN "raised" ELSE "created",
                         network |-> r.network,
                         hvdc_emulation_lines_ids |-> r.returned]
    /\ UNCHANGED <<dr_in, varsMain, varsEx, varsHd, varsSn, varsAn, varsMb, varsMore>>

\* calculate_sensitivities.py:103
FullSetpoint ==
    /\ dr_out.stage = "created"
    /\ dr_out' = [dr_out EXCEPT
                     !.stage = "setpoint",
                     !.network = hvdc_lines_full_setpoint(@, dr_in.active_hvdc_lines_ids)]
    /\ UNCHANGED <<dr_in, varsMain, varsEx, varsHd, varsSn, varsAn, varsMb, varsMore>>

NextDroop == ForceSetpoint \/ CreateAcLines \/ FullSetpoint

SpecDroop == InitDroop /\ [][NextDroop]_vars

(***************************************************************************)
(* Properties of the droop flags and of the equivalent lines.              *)
(***************************************************************************)
\* the links of the network whose droop flag is enabled
DroopEnabled(network) ==
    {h \in DOMAIN network.hvdc_angle_droop : network.hvdc_angle_droop[h].enabled}

\* C18: after hvdc_lines_full_setpoint has run, no HVDC link of the network
\* has its droop (AC-emulation) flag enabled: every link is in setpoint mode
C18_NoDroopAfterFullSetpoint ==
    dr_out.stage = "setpoint" => DroopEnabled(dr_out.network) = {}

\* the ids a list holds
ListIds(list) == {list[i] : i \in 1..Len(list)}

\* C19: create_ac_lines_to_simulate_hvdc_ac_emulation returns exactly the
\* ids of the links both droop-enabled and in the active list, each once;
\* the network then holds one new branch 'ac_eq_line_<id>' for each
\* returned id and no other new branch; with an empty selection it returns
\* an empty collection and leaves the network as it was
C19_OneEquivalentLinePerSelectedLink ==
    (dr_out.stage = "created" /\ ~dr_in.force_setpoint) =>
        LET returned == dr_out.hvdc_emulation_lines_ids
            selection == DroopEnabled(dr_in.network) \cap dr_in.active_hvdc_lines_ids
        IN  /\ ListIds(returned) = selection
            /\ Len(returned) = Cardinality(selection)
            /\ DOMAIN dr_out.network.lines \ DOMAIN dr_in.network.lines =
                  {"ac_eq_line_" \o h : h \in ListIds(returned)}
            /\ Cardinality(DOMAIN dr_out.network.lines) =
                  Cardinality(DOMAIN dr_in.network.lines) + Len(returned)
            /\ \A l \in DOMAIN dr_in.network.lines :
                  dr_out.network.lines[l] = dr_in.network.lines[l]
            /\ selection = {} => returned = <<>> /\ dr_out.network = dr_in.network

\* C19 witness: two droop-enabled links, of which the one of the active list
\* is converted, beside an active id unknown to the network
C19_Witness ==
    /\ dr_out.stage = "created"
    /\ ~dr_in.force_setpoint
    /\ dr_in.active_hvdc_lines_ids = {"H1", "H9"}
    /\ DroopEnabled(dr_in.network) = {"H1", "H2"}
    /\ dr_out.hvdc_emulation_lines_ids = <<"H1">>
    /\ DOMAIN dr_out.network.lines = {"L1", "ac_eq_line_H1"}

(***************************************************************************)
(* main: the monitored branches (lines 111-119).                           *)
(***************************************************************************)
\* the ids a monitored_branches.csv may list, and the branches of a network
MbCsvIds == {"L1", "L2", "X1", "X2"}
MbNetworkBranches == {"L1", "L2", "T1"}

InitMonitored ==
    /\ MainIdle /\ ExIdle /\ HdIdle /\ SnIdle /\ AnIdle /\ DrIdle /\ MoreIdle
    /\ \E csv \in SUBSET MbCsvIds, network_branches_ids \in SUBSET MbNetworkBranches \ {{}} :
          mb_in = [branch_id |-> csv, network_branches_ids |-> network_branches_ids]
    /\ mb_out = [stage |-> "start", monitored_branches_ids |-> {}]

\* calculate_sensitivities.py:116-118: the ids of the file, ValueError if none
ReadMonitoredBranches ==
    /\ mb_out.stage = "start"
    /\ mb_out' = [stage |-> IF Cardinality(mb_in.branch_id) = 0 THEN "raised" ELSE "read",
                  monitored_branches_ids |-> mb_in.branch_id]
    /\ UNCHANGED <<mb_in, varsMain, varsEx, varsHd, varsSn, varsAn, varsDr, varsMore>>

\* calculate_sensitivities.py:119: intersection_update, then main goes on
\* with the contingencies (line 122)
FilterMonitoredBranches ==
    /\ mb_out.stage = "read"
    /\ mb_out' = [stage |-> "contingencies",
                  monitored_branches_ids |->
                     mb_out.monitored_branches_ids \cap mb_in.network_branches_ids]
    /\ UNCHANGED <<mb_in, varsMain, varsEx, varsHd, varsSn, varsAn, varsDr, varsMore>>

NextMonitored == ReadMonitoredBranches \/ FilterMonitoredBranches

SpecMonitored == InitMonitored /\ [][NextMonitored]_vars

C29_EveryActiveLinkInSomeLever ==
    hd_out.done =>
        \A h \in ActiveIds : \E m \in DOMAIN hd_out.hvdc_map : h \in Members(m)

(***************************************************************************)
(* Further properties of the contingency loop.                             *)
(***************************************************************************)
\* the element type of the case the log belongs to
LogCaseType == contingency_element_types[Len(processed)]

\* C26: the sensitivity solve of a case is started only after a power flow
\* of that same case, run with the contingency applied, has converged: never
\* from the reconnected state of the retry, never after a failed last solve,
\* and at most once per case
C26_SensitivityAfterConvergedSolve ==
    /\ CountOp(log, "sensi") <= 1
    /\ \A i \in 1..Len(log) :
          log[i].op = "sensi" =>
              /\ i > 1
              /\ log[i - 1].op = "run_ac"
              /\ log[i - 1].status
              /\ LogCaseType # "" => log[i - 1].applied /\ log[i].applied
    /\ pc = "launch_sensitivity_analysis" =>
          /\ lastSolve.kind = "run_ac"
          /\ lastSolve.phase \in {"first", "retry"}
          /\ lastSolve.idx = idx
          /\ lastSolve.net = variants[working]

\* C26 witness: the sensitivity solve of a real contingency was started
\* after a failed first solve and a converged retry
C26_Witness ==
    /\ pc = "fold"
    /\ contingency_element_type # ""
    /\ Len(log) = 7
    /\ ~log[2].status
    /\ log[6].status /\ log[6].applied
    /\ log[7].op = "sensi"

\* the elements on which two network states differ
Differ(a, b) == {e \in DOMAIN a : a[e] # b[e]}

\* the element of case i and its equivalent branch
CaseElements(i) ==
    IF contingency_element_types[i] = "" THEN {}
    ELSE {cases[i], AcEqLine(cases[i])}

\* C27: when a case's contingency is about to be applied, the working copy
\* equals the baseline, whatever the earlier cases left (a skipped case
\* included); at every solve the network differs from the baseline at most
\* by the current case's element and its equivalent branch
C27_CaseStartsFromBaseline ==
    /\ pc = "apply_contingency_modification" =>
          /\ working = current_contingency
          /\ variants[working] = variants[initial_name]
    /\ lastSolve.idx >= 1 =>
          Differ(lastSolve.net, variants[initial_name]) \subseteq CaseElements(lastSolve.idx)

\* C27 witness: a second contingency is about to be applied on a copy equal
\* to the baseline, after a contingency that was skipped with its element
\* open in the copy
C27_Witness ==
    /\ pc = "apply_contingency_modification"
    /\ idx = 3
    /\ conv[2] = "skipped"
    /\ Differ(lastSolve.net, variants[initial_name]) # {}
    /\ variants[working] = variants[initial_name]

\* C28: after create_ac_lines_to_simulate_hvdc_ac_emulation has returned,
\* the target power of every converted link is its droop bias p0 divided by
\* 100, and the target power and the droop-enabled flag of every link that
\* was not converted are unchanged
C28_TargetIsBiasPerUnit ==
    (dr_out.stage = "created" /\ ~dr_in.force_setpoint) =>
        \A h \in DOMAIN dr_out.network.hvdc_lines :
            IF h \in ListIds(dr_out.hvdc_emulation_lines_ids)
            THEN dr_out.network.hvdc_lines[h].target_p * 100 = dr_in.network.hvdc_angle_droop[h].p0
            ELSE /\ dr_out.network.hvdc_lines[h].target_p = dr_in.network.hvdc_lines[h].target_p
                 /\ h \in DOMAIN dr_in.network.hvdc_angle_droop =>
                       /\ h \in DOMAIN dr_out.network.hvdc_angle_droop
                       /\ dr_out.network.hvdc_angle_droop[h].enabled
                              = dr_in.network.hvdc_angle_droop[h].enabled

\* C28 witness: one link was converted, and the other, which carries an
\* enabled droop extension but is not active, was not
C28_Witness ==
    /\ dr_out.stage = "created"
    /\ ~dr_in.force_setpoint
    /\ dr_out.hvdc_emulation_lines_ids = <<"H1">>
    /\ "H2" \in DroopEnabled(dr_in.network)
    /\ dr_out.network.hvdc_lines["H1"].target_p # dr_in.network.hvdc_lines["H1"].target_p

(***************************************************************************)
(* Small and missing sensitivities.                                        *)
(***************************************************************************)
\* a raw cell counts as zero: it is missing, or its magnitude is below
\* SENSI_THRESHOLD = 1e-6, that is 10 in the units of 1e-7 of the raw cells
BelowThreshold(cell) == cell = NaN \/ (-10 < cell[1] /\ cell[1] < 10)

\* C24: every generator or PST sensitivity whose raw magnitude is below
\* SENSI_THRESHOLD (1e-6) is reported as exactly 0, and a missing (NaN)
\* sensitivity or reference value is reported as 0
C24_BelowThresholdIsZero ==
    SnComputed =>
        \A branch \in sn_in.monitored_branches_ids :
            /\ \A g \in DOMAIN sn_out.gens_sensitivities_dict[branch] :
                  BelowThreshold(sn_in.result.generators[g][branch]) =>
                      sn_out.gens_sensitivities_dict[branch][g] = 0
            /\ \A t \in DOMAIN sn_out.psts_sensitivities_dict[branch] :
                  BelowThreshold(sn_in.result.psts[t][branch]) =>
                      sn_out.psts_sensitivities_dict[branch][t] = 0
            /\ sn_in.result.reference_generators[branch] = NaN =>
                  sn_out.branches_reference_dict[branch]["referenceCurrent"] = 0

(***************************************************************************)
(* aux.py: add_generators_at_hvdcs_extremities, and lines 201-203 of main. *)
(* A network is the topology kind of its voltage levels and its table of   *)
(* generators.                                                             *)
(***************************************************************************)
FgVoltageLevels == {"V1", "V2", "V3", "V4"}
FgTopologyKinds == {"BUS_BREAKER", "NODE_BREAKER"}

\* aux.py:271-273, 277-279: the attributes given to network.create_generators
BusGeneratorAttributes ==
    [target_p |-> 0, min_p |-> -1000, max_p |-> 1000, target_q |-> 0,
     voltage_regulator_on |-> FALSE]

\* aux.py:286-288, 291-293: the attributes given to nt.create_generator_bay
BayGeneratorAttributes ==
    [max_p |-> 100, min_p |-> 0, voltage_regulator_on |-> FALSE,
     target_p |-> 0, target_q |-> 0]

\* network.create_generators(id, voltage_level_id, bus_id, ...): PyPowsyblError
\* in a node/breaker voltage level (the case of line 280) or with an id in use
create_generators(network, id, voltage_level_id, attributes) ==
    IF network.topology_kind[voltage_level_id] = "NODE_BREAKER" \/ id \in DOMAIN network.generators
    THEN [raised |-> "PyPowsyblError", network |-> network]
    ELSE [raised |-> "", network |-> [network EXCEPT !.generators = DictSet(@, id, attributes)]]

\* nt.create_generator_bay(network, id, ..., bus_or_busbar_section_id=
\* busbar_gen.index[0]): IndexError when the voltage level has no busbar
\* section, PyPowsyblError with an id in use
create_generator_bay(network, id, voltage_level_id, attributes) ==
    IF network.topology_kind[voltage_level_id] # "NODE_BREAKER"
    THEN [raised |-> "IndexError", network |-> network]
    ELSE IF id \in DOMAIN network.generators
    THEN [raised |-> "PyPowsyblError", network |-> network]
    ELSE [raised |-> "", network |-> [network EXCEPT !.generators = DictSet(@, id, attributes)]]

\* aux.py:262-295: one turn of the loop; what the try block created before
\* it raised stays in the network
AddAtExtremities(network, hvdc_df, hvdc_line) ==
    LET origin == hvdc_df[hvdc_line].voltage_level_id1 \o "_fict_hvdc_gen"
        end == hvdc_df[hvdc_line].voltage_level_id2 \o "_fict_hvdc_gen"
        voltage_level_id1 == hvdc_df[hvdc_line].voltage_level_id1
        voltage_level_id2 == hvdc_df[hvdc_line].voltage_level_id2
        gen1 == create_generators(network, origin, voltage_level_id1, BusGeneratorAttributes)
        gen2 == create_generators(gen1.network, end, voltage_level_id2, BusGeneratorAttributes)
        tried == IF gen1.raised # "" THEN gen1 ELSE gen2
        bay1 == create_generator_bay(tried.network, origin, voltage_level_id1, BayGeneratorAttributes)
        bay2 == create_generator_bay(bay1.network, end, voltage_level_id2, BayGeneratorAttributes)
    IN  IF tried.raised # "PyPowsyblError" THEN tried
        ELSE IF bay1.raised # "" THEN bay1
        ELSE bay2

\* aux.py:262: for hvdc_line in hvdc_list, from position i on
RECURSIVE AddLoop(_, _, _, _)
AddLoop(network, hvdc_df, hvdc_list, i) ==
    IF i > Len(hvdc_list) THEN [raised |-> "", network |-> network]
    ELSE LET turn == AddAtExtremities(network, hvdc_df, hvdc_list[i])
         IN  IF turn.raised # "" THEN turn
             ELSE AddLoop(turn.network, hvdc_df, hvdc_list, i + 1)

\* aux.py:251-299
add_generators_at_hvdcs_extremities(network, hvdc_df, hvdc_list) ==
    LET loop == AddLoop(network, hvdc_df, hvdc_list, 1)
    IN  [raised |-> loop.raised, network |-> loop.network,
         returned |-> hvdc_to_fictitious_gen(hvdc_df, hvdc_list)]

\* the links' terminals: lever C1 apart from lever A1, or ending where A1 ends
FgHvdcDfs ==
    {SnHvdcDf,
     [A1 |-> [voltage_level_id1 |-> "V1", voltage_level_id2 |-> "V2"],
      C1 |-> [voltage_level_id1 |-> "V3", voltage_level_id2 |-> "V2"]]}

InitFictGen ==
    /\ MainIdle /\ ExIdle /\ HdIdle /\ SnIdle /\ AnIdle /\ DrIdle /\ MbIdle /\ BlIdle /\ SlIdle
    /\ \E topology_kind \in [FgVoltageLevels -> FgTopologyKinds], hvdc_df \in FgHvdcDfs, levers \in SUBSET DOMAIN SnHvdcDf, redispatchable \in SUBSET SnGenerators :
          \E hvdc_list \in Orders(levers) :
              /\ fg_in = [network |-> [topology_kind |-> topology_kind, generators |-> <<>>],
                          hvdc_df |-> hvdc_df, hvdc_list |-> hvdc_list,
                          redispatchable_generators_ids |-> redispatchable]
              /\ fg_out = [stage |-> "start", network |-> fg_in.network, fict_gen |-> <<>>,
                           redispatchable_generators_ids |-> redispatchable]

\* calculate_sensitivities.py:201
AddGenerators ==
    /\ fg_out.stage = "start"
    /\ LET r == add_generators_at_hvdcs_extremities(fg_out.network, fg_in.hvdc_df, fg_in.hvdc_list)
       IN  fg_out' = [fg_out EXCEPT !.stage = IF r.raised # "" THEN "raised" ELSE "added",
                                    !.network = r.network,
                                    !.fict_gen = IF r.raised # "" THEN <<>> ELSE r.returned]
    /\ UNCHANGED <<fg_in, varsMain, varsEx, varsHd, varsSn, varsAn, varsDr, varsMb, varsBl, varsSl>>

\* calculate_sensitivities.py:202-203: the list extended with both columns;
\* a table without rows has no column, and fict_gen["origin"] raises KeyError
ExtendRedispatchable ==
    /\ fg_out.stage = "added"
    /\ fg_out' = IF DOMAIN fg_out.fict_gen = {}
                 THEN [fg_out EXCEPT !.stage = "raised"]
                 ELSE [fg_out EXCEPT !.stage = "extended",
                                     !.redispatchable_generators_ids =
                                        @ \cup FictGenIds(fg_out.fict_gen)]
    /\ UNCHANGED <<fg_in, varsMain, varsEx, varsHd, varsSn, varsAn, varsDr, varsMb, varsBl, varsSl>>

NextFictGen == AddGenerators \/ ExtendRedispatchable

SpecFictGen == InitFictGen /\ [][NextFictGen]_vars

(***************************************************************************)
(* Properties of the fictitious terminal generators.                       *)
(***************************************************************************)
\* C23: every fictitious terminal generator created by
\* add_generators_at_hvdcs_extremities, attached at a bus or through the
\* node/breaker busbar fallback, has target_p = 0, symmetric power bounds
\* (min_p = -max_p) and voltage regulation off
C23_FictitiousGeneratorAttributes ==
    fg_out.stage \in {"added", "extended"} =>
        \A g \in FictGenIds(fg_out.fict_gen) :
            /\ g \in DOMAIN fg_out.network.generators
            /\ fg_out.network.generators[g].target_p = 0
            /\ fg_out.network.generators[g].min_p = -fg_out.network.generators[g].max_p
            /\ ~fg_out.network.generators[g].voltage_regulator_on

(***************************************************************************)
(* aux.py: get_branches_limits, and lines 206-207 of main.  The table of   *)
(* network.get_current_limits() is, for every branch that has limits, the  *)
(* value of each of its named limits.                                      *)
(***************************************************************************)
BlBranches == {"L1", "L2"}
BlLimitNames == {"permanent_limit", "IT600"}
BlValues == {500, 12000, 15000}

\* the tables of limits: some branches, each with one named limit at least
BlLimits ==
    UNION {[ids -> UNION {[names -> BlValues] : names \in SUBSET BlLimitNames \ {{}}}] :
              ids \in SUBSET BlBranches}

\* aux.py:392: min(br_limits.values())
min_limit(br_limits) ==
    CHOOSE v \in {br_limits[n] : n \in DOMAIN br_limits} :
        \A n \in DOMAIN br_limits : v <= br_limits[n]

\* aux.py:392-395: one turn of the loop over the dictionary
RepairPermanentLimit(br_limits) ==
    IF DictGet(br_limits, "permanent_limit", 10000) > min_limit(br_limits)
    THEN DictSet(br_limits, "permanent_limit", min_limit(br_limits))
    ELSE br_limits

\* aux.py:379-397.  Without any monitored branch in the table of limits,
\* groupby(level=0).apply gives a frame without rows, whose to_dict() is
\* keyed by the columns of the table, each with an empty dictionary, and
\* min() of line 392 raises ValueError
get_branches_limits(limits, monitored_branches) ==
    LET remaining_branches == monitored_branches \ DOMAIN limits
        selected == monitored_branches \ remaining_branches
    IN  IF selected = {}
        THEN [raised |-> TRUE, remaining_branches |-> remaining_branches, returned |-> <<>>]
        ELSE [raised |-> FALSE, remaining_branches |-> remaining_branches,
              returned |-> [branch \in selected |-> RepairPermanentLimit(limits[branch])]]

InitLimits ==
    /\ MainIdle /\ ExIdle /\ HdIdle /\ SnIdle /\ AnIdle /\ DrIdle /\ MbIdle /\ FgIdle /\ SlIdle
    /\ \E limits \in BlLimits, monitored \in SUBSET BlBranches \ {{}} :
          bl_in = [limits |-> limits, monitored_branches_ids |-> monitored]
    /\ bl_out = [stage |-> "start", quad_limits |-> <<>>, monitored_branches_ids |-> <<>>]

\* calculate_sensitivities.py:206
GetBranchesLimits ==
    /\ bl_out.stage = "start"
    /\ LET r == get_branches_limits(bl_in.limits, bl_in.monitored_branches_ids)
       IN  bl_out' = [bl_out EXCEPT !.stage = IF r.raised THEN "raised" ELSE "limits",
                                    !.quad_limits = r.returned]
    /\ UNCHANGED <<bl_in, varsMain, varsEx, varsHd, varsSn, varsAn, varsDr, varsMb, varsFg, varsSl>>

\* calculate_sensitivities.py:207: the monitored set as a list, in one of
\* the orders list(set) may give; main goes on to the cases
ListMonitoredBranches ==
    /\ bl_out.stage = "limits"
    /\ \E order \in Orders(bl_in.monitored_branches_ids) :
          bl_out' = [bl_out EXCEPT !.stage = "cases", !.monitored_branches_ids = order]
    /\ UNCHANGED <<bl_in, varsMain, varsEx, varsHd, varsSn, varsAn, varsDr, varsMb, varsFg, varsSl>>

NextLimits == GetBranchesLimits \/ ListMonitoredBranches

SpecLimits == InitLimits /\ [][NextLimits]_vars

(***************************************************************************)
(* Properties of the limits.                                               *)
(***************************************************************************)
\* the monitored branches without any limit
BlUnlimited == bl_in.monitored_branches_ids \ DOMAIN bl_in.limits

\* C21: a monitored branch without operational limit is absent from the
\* dictionary get_branches_limits returns and stays in the monitored list
\* given to the sensitivity analysis; the run does not abort on it
C21_UnlimitedBranchStaysMonitored ==
    /\ bl_out.stage # "raised"
    /\ bl_out.stage \in {"limits", "cases"} =>
          DOMAIN bl_out.quad_limits \cap BlUnlimited = {}
    /\ bl_out.stage = "cases" =>
          BlUnlimited \subseteq ListIds(bl_out.monitored_branches_ids)

\* C22: in the dictionary get_branches_limits returns, every branch carries
\* a permanent_limit equal to the minimum of all its named limits, declared
\* or not and whatever its declared value; no other named limit is changed
C22_PermanentLimitIsMinimum ==
    bl_out.stage \in {"limits", "cases"} =>
        \A branch \in DOMAIN bl_out.quad_limits :
            /\ "permanent_limit" \in DOMAIN bl_out.quad_limits[branch]
            /\ bl_out.quad_limits[branch]["permanent_limit"] = min_limit(bl_in.limits[branch])
            /\ \A name \in DOMAIN bl_in.limits[branch] \ {"permanent_limit"} :
                  bl_out.quad_limits[branch][name] = bl_in.limits[branch][name]

(***************************************************************************)
(* calculate_sensitivities.py: the module-level solver parameters PARAMS   *)
(* over successive calls of main in one process.                           *)
(***************************************************************************)
MaxCalls == 4

\* the call of main in progress was given a slack-bus file
slack_bus_path_given == sl_out.calls[Len(sl_out.calls)]

\* what a solver call of main records: its kind and the parameter it reads
SolveWith(kind) == [kind |-> kind, read_slack_bus |-> PARAMS.read_slack_bus]

\* lines 70-76, run once when the module is imported; no call of main yet
InitSlack ==
    /\ MainIdle /\ ExIdle /\ HdIdle /\ SnIdle /\ AnIdle /\ DrIdle /\ MbIdle /\ FgIdle /\ BlIdle
    /\ PARAMS = [read_slack_bus |-> TRUE, distributed_slack |-> FALSE]
    /\ sl_out = [pc |-> "idle", calls |-> <<>>, solves |-> <<>>]

\* line 78: main is called, with a slack-bus file or without
CallMain ==
    /\ sl_out.pc = "idle"
    /\ Len(sl_out.calls) < MaxCalls
    /\ \E given \in BOOLEAN :
          sl_out' = [pc |-> "define_slack_bus", calls |-> Append(sl_out.calls, given),
                     solves |-> <<>>]
    /\ UNCHANGED <<PARAMS, varsMain, varsEx, varsHd, varsSn, varsAn, varsDr, varsMb, varsFg, varsBl>>

\* lines 162-169: define_slack_bus changes the network only
DefineSlackBus ==
    /\ sl_out.pc = "define_slack_bus"
    /\ PARAMS' = IF slack_bus_path_given THEN PARAMS
                 ELSE [PARAMS EXCEPT !.read_slack_bus = FALSE]
    /\ sl_out' = [sl_out EXCEPT !.pc = "run_dc"]
    /\ UNCHANGED <<varsMain, varsEx, varsHd, varsSn, varsAn, varsDr, varsMb, varsFg, varsBl>>

\* a solver call of main with PARAMS, at position `at` of main
SolveStep(at, kind, next) ==
    /\ sl_out.pc = at
    /\ sl_out' = [sl_out EXCEPT !.pc = next, !.solves = Append(@, SolveWith(kind))]
    /\ UNCHANGED <<PARAMS, varsMain, varsEx, varsHd, varsSn, varsAn, varsDr, varsMb, varsFg, varsBl>>

\* line 175: dc_lf = lf.run_dc(network, PARAMS)
SlackRunDc == SolveStep("run_dc", "run_dc", "run_ac")

\* line 181: ac_lf = lf.run_ac(network, PARAMS)
SlackRunAc == SolveStep("run_ac", "run_ac", "cases")

\* lines 226-242: the power flows of the cases
SlackCasesRunAc == SolveStep("cases", "run_ac", "sensitivity")

\* lines 240-242: the sensitivity analyses of the cases; main returns
SlackCasesSensitivity == SolveStep("sensitivity", "sensi", "idle")

NextSlack ==
    \/ CallMain
    \/ DefineSlackBus
    \/ SlackRunDc
    \/ SlackRunAc
    \/ SlackCasesRunAc
    \/ SlackCasesSensitivity

SpecSlack == InitSlack /\ [][NextSlack]_vars

(***************************************************************************)
(* Properties of the solver parameters.                                    *)
(***************************************************************************)
\* C30: a call of main given a slack-bus file runs all its solves with
\* read_slack_bus = True, whatever calls of main came before in the process,
\* an earlier call without slack-bus file included
C30_SlackFileMeansReadSlackBus ==
    (sl_out.calls # <<>> /\ slack_bus_path_given) =>
        \A i \in 1..Len(sl_out.solves) : sl_out.solves[i].read_slack_bus

====
